---- MODULE Spec2Model ----
(***************************************************************************)
(* A model of the widget_wizard telemetry server: the WebSocket connection *)
(* accounting of ws_server.c, the bounded JSON builders of json_out.c and  *)
(* the one-shot collectors of proc.c / storage.c.                          *)
(*                                                                         *)
(* Bytes are modelled as TLA+ strings: Len is the byte length, \o is       *)
(* concatenation and SubSeq the byte range.                                *)
(***************************************************************************)
EXTENDS Integers, Sequences, FiniteSets, TLC

(***************************************************************************)
(* Bounds of the model.                                                    *)
(***************************************************************************)

\* ws_limits.h sets MAX_WS_CONNECTED_CLIENTS to 10; the model scales the
\* limit down so that few connections suffice to reach it.
MAX_WS_CONNECTED_CLIENTS == 2

\* Number of connection attempts (wsi objects) the transport creates.
NumConns == 4

Conns == 1..NumConns

(***************************************************************************)
(* State.                                                                  *)
(***************************************************************************)
VARIABLES
  srv,                        \* position of the server: init, running,
                              \* failed, quitting, destroying, stopped
  ws_app,                     \* ws.app != NULL
  ws_ctx,                     \* ws.ctx != NULL
  stats_timer_id,             \* ws.stats_timer_id (0 = no timer armed)
  lws_timer_id,               \* ws.lws_timer_id (0 = no timer armed)
  ws_pending_client_count,    \* handshakes in progress (unsigned int; at
                              \* most NumConns increments are ever made,
                              \* so the type's upper end is out of reach)
  ws_connected_client_count,  \* established connections (unsigned int)
  wsi,                        \* transport side: last lifecycle callback
                              \* delivered for each connection
  counted,                    \* per_session_data.counted of each connection
  admitted,                   \* history: the connection passed admission
  released,                   \* history: release decrements made by the
                              \* CLOSED / WSI_DESTROY handlers of each
                              \* connection, per counter
  last_tick_active,           \* history: established connections at the
                              \* last run of stats_timer_cb (-1 = none yet)
  serviced,                   \* history: lws_service() was called on the
                              \* live context, and after its destruction
  write_requested,            \* transport side: lws_callback_on_writable()
                              \* was called for the connection and the
                              \* WRITEABLE callback is still due
  send_timer,                 \* transport side: the connection's timer set
                              \* by lws_set_timer_usecs() is armed
  timer_ran                   \* history: the TIMER callback ran for the
                              \* connection since it was established

wsVars == <<srv, ws_app, ws_ctx, stats_timer_id, lws_timer_id,
            ws_pending_client_count, ws_connected_client_count,
            wsi, counted, admitted, released, last_tick_active, serviced,
            write_requested, send_timer, timer_ran>>

VARIABLES
  op,           \* the operation that ran last: none, collect, processes,
                \* storage, stats
  proc_entries, \* input: what the /proc scan reads, in readdir order
  max_names,    \* input: max_names of collect_process_list
  proc_names,   \* names[0..count) filled by collect_process_list
  out_size,     \* input: size of the output buffer
  collected,    \* the JSON array elements built from the collection
  res,          \* what the builder returned: length, *truncated,
                \* serialization attempts, elements left in the array
  out_buf,      \* bytes the builder left in the output buffer
  frame         \* what the callback handed to lws_write

jsonVars == <<op, proc_entries, max_names, proc_names, out_size, collected,
              res, out_buf, frame>>

VARIABLES
  stat_line,    \* input: what the last read of /proc/stat yielded
  prev_idle,    \* read_cpu_stats: static prev_idle
  prev_total,   \* read_cpu_stats: static prev_total
  initialized,  \* read_cpu_stats: static initialized
  cpu_usage     \* app->stats.cpu_usage, a double

cpuVars == <<stat_line, prev_idle, prev_total, initialized, cpu_usage>>

VARIABLES
  clock,          \* CLOCK_MONOTONIC, in ms
  procs,          \* the kernel's process table, as /proc shows it
  cpu_core_count, \* proc.c: static cpu_core_count
  monotonic_ms,   \* app->stats.monotonic_ms of the shared snapshot
  session,        \* the connection's per_session_data: monitor fields
  rps,            \* what the read_process_stats call of the last step
                  \* returned, with the session it was called on
  command,        \* the monitor command received in the last step
  snapshot,       \* what the last write callback handed to lws_write
  started,        \* proc_init_cpu_count() has run
  message,        \* the message the RECEIVE callback of the last step got
  reply           \* what that callback handed to lws_write

monVars == <<clock, procs, cpu_core_count, monotonic_ms, session, rps,
             command, snapshot, started, message, reply>>

VARIABLES
  sys_stats,     \* app->stats: the fields of struct sys_stats other than
                 \* cpu_usage and monotonic_ms
  prev_mono_ms,  \* stats_timer_cb: static prev_mono_ms
  sample,        \* what the last sampler run read, and the snapshot it
                 \* found
  sent           \* per connection: its session, and what it sent since
                 \* the last sampler run

statsVars == <<sys_stats, prev_mono_ms, sample, sent>>

VARIABLES
  fs_query       \* the last get_fs_type_for_path call: its path, the mount
                 \* table it read and what it returned

fsVars == <<fs_query>>

VARIABLES
  stat_parse     \* the stat line read last (with how it was made) and,
                 \* once parse_proc_stat_times was called on it, what
                 \* the call returned

parseVars == <<stat_parse>>

vars == <<wsVars, jsonVars, cpuVars, monVars, statsVars, fsVars, parseVars>>

(***************************************************************************)
(* ws_server.c: timers.                                                    *)
(***************************************************************************)

\* start_stats_timer(): arms the 500 ms sampler unless it is armed already
\* or no application state is attached.
start_stats_timer(id, app) ==
  IF id = 0 /\ app THEN 1 ELSE id

\* A stop_stats_timer() that leaves an armed timer in place.
stop_stats_timer_leaky(id) ==
  id

\* stop_stats_timer(): removes the sampler timer if one is armed.
stop_stats_timer(id) ==
  IF id # 0 THEN 0 ELSE id

\* A removal of the service timer that leaves an armed timer in place.
stop_service_timer_leaky(id) ==
  id

\* ws_server_stop() and on_unix_signal(): remove the timer that drives
\* lws_service() if one is armed.
stop_service_timer(id) ==
  IF id # 0 THEN 0 ELSE id

\* Connections that are established and not yet closed.
Active == {c \in Conns : wsi[c] = "established"}

\* stats_timer_cb(): the GLib source fires only while it is armed.
stats_timer_cb ==
  /\ stats_timer_id # 0
  /\ last_tick_active' = Cardinality(Active)
  /\ UNCHANGED <<srv, ws_app, ws_ctx, stats_timer_id, lws_timer_id,
                 ws_pending_client_count, ws_connected_client_count,
                 wsi, counted, admitted, released>>
  /\ UNCHANGED serviced
  /\ UNCHANGED <<write_requested, send_timer, timer_ran>>
  /\ UNCHANGED <<jsonVars, cpuVars, monVars, statsVars, fsVars, parseVars>>

(***************************************************************************)
(* ws_server.c: ws_callback, one action per callback reason.  The          *)
(* transport (libwebsockets) creates the zeroed per-session data before    *)
(* LWS_CALLBACK_FILTER_PROTOCOL_CONNECTION and passes it to every later    *)
(* callback of that wsi, LWS_CALLBACK_WSI_DESTROY included.                *)
(***************************************************************************)

\* LWS_CALLBACK_FILTER_PROTOCOL_CONNECTION
FilterProtocolConnection(c) ==
  /\ srv = "running"
  /\ wsi[c] = "none"
  /\ IF ws_connected_client_count + ws_pending_client_count
          >= MAX_WS_CONNECTED_CLIENTS
     THEN /\ wsi' = [wsi EXCEPT ![c] = "rejected"]
          /\ UNCHANGED <<ws_pending_client_count, admitted>>
     ELSE /\ wsi' = [wsi EXCEPT ![c] = "admitted"]
          /\ admitted' = [admitted EXCEPT ![c] = TRUE]
          /\ ws_pending_client_count' = ws_pending_client_count + 1
  /\ UNCHANGED <<srv, ws_app, ws_ctx, stats_timer_id, lws_timer_id,
                 ws_connected_client_count, counted, released,
                 last_tick_active>>
  /\ UNCHANGED serviced
  /\ UNCHANGED <<write_requested, send_timer, timer_ran>>
  /\ UNCHANGED <<jsonVars, cpuVars, monVars, statsVars, fsVars, parseVars>>

\* LWS_CALLBACK_ESTABLISHED, lines 130-134: lws_callback_on_writable(wsi)
\* and lws_set_timer_usecs(wsi, LWS_USEC_PER_SEC / 2) on the connection's
\* transport state t.
ws_established(t) ==
  [t EXCEPT !.write_requested = TRUE, !.send_timer = TRUE]

\* LWS_CALLBACK_ESTABLISHED
Established(c) ==
  /\ srv = "running"
  /\ wsi[c] = "admitted"
  /\ ws_pending_client_count' =
       IF ws_pending_client_count > 0
       THEN ws_pending_client_count - 1
       ELSE ws_pending_client_count
  /\ ws_connected_client_count' = ws_connected_client_count + 1
  /\ counted' = [counted EXCEPT ![c] = TRUE]
  /\ stats_timer_id' =
       IF ws_connected_client_count' = 1
       THEN start_stats_timer(stats_timer_id, ws_app)
       ELSE stats_timer_id
  /\ wsi' = [wsi EXCEPT ![c] = "established"]
  /\ UNCHANGED <<srv, ws_app, ws_ctx, lws_timer_id, admitted, released,
                 last_tick_active>>
  /\ UNCHANGED serviced
  /\ \E t \in {ws_established([write_requested |-> write_requested[c],
                                  send_timer |-> send_timer[c]])} :
       /\ write_requested' = [write_requested EXCEPT ![c] = t.write_requested]
       /\ send_timer' = [send_timer EXCEPT ![c] = t.send_timer]
  /\ UNCHANGED timer_ran
  /\ UNCHANGED <<jsonVars, cpuVars, monVars, statsVars, fsVars, parseVars>>

\* LWS_CALLBACK_TIMER, lines 150-156, on the transport state t of the
\* connection whose timer expired.
ws_timer_one_shot(t) ==
  [t EXCEPT !.write_requested = TRUE]

ws_timer(t) ==
  [t EXCEPT !.write_requested = TRUE, !.send_timer = TRUE]

\* LWS_CALLBACK_TIMER: the transport delivers it from lws_service() when
\* the connection's timer expires; an expired timer is no longer armed.
Timer(c) ==
  /\ srv = "running"
  /\ lws_timer_id # 0
  /\ wsi[c] = "established"
  /\ send_timer[c]
  /\ \E t \in {ws_timer([write_requested |-> write_requested[c],
                         send_timer |-> FALSE])} :
       /\ write_requested' = [write_requested EXCEPT ![c] = t.write_requested]
       /\ send_timer' = [send_timer EXCEPT ![c] = t.send_timer]
  /\ timer_ran' = [timer_ran EXCEPT ![c] = TRUE]
  /\ UNCHANGED <<srv, ws_app, ws_ctx, stats_timer_id, lws_timer_id,
                 ws_pending_client_count, ws_connected_client_count,
                 wsi, counted, admitted, released, last_tick_active,
                 serviced>>
  /\ UNCHANGED <<jsonVars, cpuVars, monVars, statsVars, fsVars, parseVars>>

\* LWS_CALLBACK_SERVER_WRITEABLE as the transport side sees it: delivered
\* from lws_service() once per request; the handler builds and sends one
\* frame and asks for no further callback.
WriteableCallback(c) ==
  /\ srv = "running"
  /\ lws_timer_id # 0
  /\ wsi[c] = "established"
  /\ write_requested[c]
  /\ write_requested' = [write_requested EXCEPT ![c] = FALSE]
  /\ UNCHANGED <<send_timer, timer_ran>>
  /\ UNCHANGED <<srv, ws_app, ws_ctx, stats_timer_id, lws_timer_id,
                 ws_pending_client_count, ws_connected_client_count,
                 wsi, counted, admitted, released, last_tick_active,
                 serviced>>
  /\ UNCHANGED <<jsonVars, cpuVars, monVars, statsVars, fsVars, parseVars>>

\* LWS_CALLBACK_CLOSED.  It follows ESTABLISHED when the connection goes
\* away; the handler also tolerates a CLOSED without ESTABLISHED.  The
\* transport drops the timer and the write request of a closing wsi.
Closed(c) ==
  /\ srv \in {"running", "destroying"}
  /\ wsi[c] \in {"established", "admitted"}
  /\ IF counted[c]
     THEN /\ ws_connected_client_count' =
               IF ws_connected_client_count > 0
               THEN ws_connected_client_count - 1
               ELSE ws_connected_client_count
          /\ released' =
               IF ws_connected_client_count > 0
               THEN [released EXCEPT ![c].connected = @ + 1]
               ELSE released
          /\ stats_timer_id' =
               IF ws_connected_client_count' = 0
               THEN stop_stats_timer(stats_timer_id)
               ELSE stats_timer_id
     ELSE UNCHANGED <<ws_connected_client_count, released, stats_timer_id>>
  /\ wsi' = [wsi EXCEPT ![c] =
               IF wsi[c] = "established" THEN "closed" ELSE "aborted"]
  /\ UNCHANGED <<srv, ws_app, ws_ctx, lws_timer_id,
                 ws_pending_client_count, counted, admitted,
                 last_tick_active>>
  /\ UNCHANGED serviced
  /\ write_requested' = [write_requested EXCEPT ![c] = FALSE]
  /\ send_timer' = [send_timer EXCEPT ![c] = FALSE]
  /\ timer_ran' = [timer_ran EXCEPT ![c] = FALSE]
  /\ UNCHANGED <<jsonVars, cpuVars, monVars, statsVars, fsVars, parseVars>>

\* LWS_CALLBACK_WSI_DESTROY: fires last for every wsi, whichever callbacks
\* it saw before; an established connection gets CLOSED first.
WsiDestroy(c) ==
  /\ srv \in {"running", "destroying"}
  /\ wsi[c] \in {"admitted", "rejected", "closed", "aborted"}
  /\ IF ~counted[c] /\ ws_pending_client_count > 0
     THEN /\ ws_pending_client_count' = ws_pending_client_count - 1
          /\ released' = [released EXCEPT ![c].pending = @ + 1]
     ELSE UNCHANGED <<ws_pending_client_count, released>>
  /\ wsi' = [wsi EXCEPT ![c] = "destroyed"]
  /\ UNCHANGED <<srv, ws_app, ws_ctx, stats_timer_id, lws_timer_id,
                 ws_connected_client_count, counted, admitted,
                 last_tick_active>>
  /\ UNCHANGED serviced
  /\ UNCHANGED <<write_requested, send_timer, timer_ran>>
  /\ UNCHANGED <<jsonVars, cpuVars, monVars, statsVars, fsVars, parseVars>>

(***************************************************************************)
(* ws_server.c: start and stop.                                            *)
(***************************************************************************)

\* ws_server_start(): attaches the application state, creates the context
\* (which may fail) and arms the service timer.
ws_server_start ==
  /\ srv = "init"
  /\ ws_app' = TRUE
  /\ \E created \in BOOLEAN :
       IF created
       THEN /\ ws_ctx' = TRUE
            /\ lws_timer_id' = 1
            /\ srv' = "running"
       ELSE /\ UNCHANGED <<ws_ctx, lws_timer_id>>
            /\ srv' = "failed"
  /\ UNCHANGED <<stats_timer_id, ws_pending_client_count,
                 ws_connected_client_count, wsi, counted, admitted, released,
                 last_tick_active>>
  /\ UNCHANGED serviced
  /\ UNCHANGED <<write_requested, send_timer, timer_ran>>
  /\ UNCHANGED <<jsonVars, cpuVars, monVars, statsVars, fsVars, parseVars>>

\* ws_server_stop() up to the call of lws_context_destroy(): both timers
\* are removed, then the context starts closing its connections.
ws_server_stop ==
  /\ srv = "running"
  /\ stats_timer_id' = stop_stats_timer(stats_timer_id)
  /\ lws_timer_id' = stop_service_timer(lws_timer_id)
  /\ srv' = "destroying"
  /\ UNCHANGED <<ws_app, ws_ctx, ws_pending_client_count,
                 ws_connected_client_count, wsi, counted, admitted, released,
                 last_tick_active>>
  /\ UNCHANGED serviced
  /\ UNCHANGED <<write_requested, send_timer, timer_ran>>
  /\ UNCHANGED <<jsonVars, cpuVars, monVars, statsVars, fsVars, parseVars>>

\* ws_server_stop() after lws_context_destroy() has delivered the closing
\* callbacks of every remaining wsi.
ws_server_stop_done ==
  /\ srv = "destroying"
  /\ \A c \in Conns : wsi[c] \in {"none", "destroyed"}
  /\ ws_ctx' = FALSE
  /\ ws_app' = FALSE
  /\ srv' = "stopped"
  /\ UNCHANGED <<stats_timer_id, lws_timer_id, ws_pending_client_count,
                 ws_connected_client_count, wsi, counted, admitted, released,
                 last_tick_active>>
  /\ UNCHANGED serviced
  /\ UNCHANGED <<write_requested, send_timer, timer_ran>>
  /\ UNCHANGED <<jsonVars, cpuVars, monVars, statsVars, fsVars, parseVars>>

\* lws_glib_service(): the GLib source fires only while it is armed and
\* calls lws_service() on the context it was given.
lws_glib_service ==
  /\ lws_timer_id # 0
  /\ serviced' = IF srv \in {"destroying", "stopped"}
                 THEN [serviced EXCEPT !.late = TRUE]
                 ELSE [serviced EXCEPT !.live = TRUE]
  /\ UNCHANGED <<srv, ws_app, ws_ctx, stats_timer_id, lws_timer_id,
                 ws_pending_client_count, ws_connected_client_count,
                 wsi, counted, admitted, released, last_tick_active>>
  /\ UNCHANGED <<write_requested, send_timer, timer_ran>>
  /\ UNCHANGED <<jsonVars, cpuVars, monVars, statsVars, fsVars, parseVars>>

(***************************************************************************)
(* main.c: the shutdown of the single-file build, whose globals            *)
(* stats_timer_id, lws_service_timer_id and lws_ctx play the part of       *)
(* ws.stats_timer_id, ws.lws_timer_id and ws.ctx.                          *)
(***************************************************************************)

\* on_unix_signal(): removes both timers and quits the main loop; no source
\* is dispatched after the loop has quit.
on_unix_signal ==
  /\ srv = "running"
  /\ stats_timer_id' = stop_stats_timer(stats_timer_id)
  /\ lws_timer_id' = stop_service_timer(lws_timer_id)
  /\ srv' = "quitting"
  /\ UNCHANGED <<ws_app, ws_ctx, ws_pending_client_count,
                 ws_connected_client_count, wsi, counted, admitted, released,
                 last_tick_active, serviced>>
  /\ UNCHANGED <<write_requested, send_timer, timer_ran>>
  /\ UNCHANGED <<jsonVars, cpuVars, monVars, statsVars, fsVars, parseVars>>

\* main(), label exit: lws_context_destroy() is called on the context and
\* starts closing its connections; the destruction ends as it does in
\* ws_server_stop().
main_exit ==
  /\ srv = "quitting"
  /\ ws_ctx
  /\ srv' = "destroying"
  /\ UNCHANGED <<ws_app, ws_ctx, stats_timer_id, lws_timer_id,
                 ws_pending_client_count, ws_connected_client_count, wsi,
                 counted, admitted, released, last_tick_active, serviced>>
  /\ UNCHANGED <<write_requested, send_timer, timer_ran>>
  /\ UNCHANGED <<jsonVars, cpuVars, monVars, statsVars, fsVars, parseVars>>

(***************************************************************************)
(* Specification of the connection lifecycle.                              *)
(***************************************************************************)
WsInit ==
  /\ srv = "init"
  /\ ws_app = FALSE
  /\ ws_ctx = FALSE
  /\ stats_timer_id = 0
  /\ lws_timer_id = 0
  /\ ws_pending_client_count = 0
  /\ ws_connected_client_count = 0
  /\ wsi = [c \in Conns |-> "none"]
  /\ counted = [c \in Conns |-> FALSE]
  /\ admitted = [c \in Conns |-> FALSE]
  /\ released = [c \in Conns |-> [pending |-> 0, connected |-> 0]]
  /\ last_tick_active = -1
  /\ serviced = [live |-> FALSE, late |-> FALSE]
  /\ write_requested = [c \in Conns |-> FALSE]
  /\ send_timer = [c \in Conns |-> FALSE]
  /\ timer_ran = [c \in Conns |-> FALSE]

JsonInit ==
  /\ op = "none"
  /\ proc_entries = <<>>
  /\ max_names = 0
  /\ proc_names = <<>>
  /\ out_size = 0
  /\ collected = <<>>
  /\ res = [len |-> 0, truncated |-> FALSE, attempts |-> 0, arr_size |-> 0]
  /\ out_buf = ""
  /\ frame = [sent |-> FALSE, len |-> 0, bytes |-> ""]

(***************************************************************************)
(* Values of type double.  A double is modelled by the exact quotient it   *)
(* stands for, in lowest terms with a positive denominator; the rounding   *)
(* of binary floating point is not modelled.                               *)
(***************************************************************************)

Abs(n) == IF n < 0 THEN -n ELSE n

RECURSIVE Gcd(_, _)
Gcd(a, b) == IF b = 0 THEN a ELSE Gcd(b, a % b)

\* The double num / den (den # 0).
Ratio(num, den) ==
  LET g == Gcd(Abs(num), Abs(den))
      sgn == IF den < 0 THEN -1 ELSE 1
  IN [num |-> sgn * (num \div g), den |-> sgn * (den \div g)]

\* The double with the integral value n.
Real(n) == [num |-> n, den |-> 1]

(***************************************************************************)
(* stats.c, proc.c, session.h: initial values of the sampler and of the    *)
(* process monitor.                                                        *)
(***************************************************************************)

\* A read of /proc/stat that yielded no "cpu" line with eight counters.
NoStatLine(why) ==
  [parsed |-> FALSE, why |-> why, user |-> 0, nice |-> 0, system |-> 0,
   idle |-> 0, iowait |-> 0, irq |-> 0, softirq |-> 0, steal |-> 0]

CpuInit ==
  /\ stat_line = NoStatLine("none")
  /\ prev_idle = 0
  /\ prev_total = 0
  /\ initialized = FALSE
  /\ cpu_usage = Real(0)

\* The process ids the kernel hands out.
Pids == {1, 2}

\* Number of clock steps the model follows.
MaxTicks == 2

\* Time that passes between two callbacks of the event loop, in ms.
ClockSteps == {500}

\* What sysconf(_SC_NPROCESSORS_ONLN) returns on the machine followed.
OnlineCpus == {2}

\* proc_init_cpu_count(): the cached core count, 1 when sysconf() fails.
proc_init_cpu_count(n) == IF n <= 0 THEN 1 ELSE n

\* A process id no process has.
NoProcess == [comm |-> "", utime |-> 0, stime |-> 0]

\* struct per_session_data, zeroed by the transport: the monitor fields.
NewSession ==
  [proc_enabled |-> FALSE, proc_name |-> "", prev_proc_utime |-> 0,
   prev_proc_stime |-> 0, prev_proc_sample_mono_ms |-> 0, proc_pid |-> 0]

\* No read_process_stats call was made in the last step.
NotCalled ==
  [called |-> FALSE, found |-> FALSE, cpu |-> Real(0), rss_kb |-> 0,
   pss_kb |-> 0, uss_kb |-> 0, pid |-> 0, checked |-> 0, scanned |-> FALSE,
   path |-> "none", now |-> 0, io |-> "none", before |-> NewSession]

\* No monitor command was received in the last step.
NoCommand == [is_string |-> FALSE, str |-> "", len |-> 0]

NoSnapshot == [sent |-> FALSE, len |-> 0, bytes |-> ""]

\* A member of a JSON object as the handler sees it: absent, true, false,
\* a string or an integer.
JsonAbsent == [type |-> "absent", str |-> ""]

JsonTrue == [type |-> "true", str |-> ""]

JsonFalse == [type |-> "false", str |-> ""]

JsonText(str) == [type |-> "string", str |-> str]

JsonNumber == [type |-> "integer", str |-> ""]

\* A received message: its bytes and what json_loads makes of them.
Message(text, parsed, is_object, list_processes, storage, monitor, system_info) ==
  [received |-> TRUE, text |-> text, parsed |-> parsed,
   is_object |-> is_object,
   list_processes |-> list_processes, storage |-> storage,
   monitor |-> monitor, system_info |-> system_info]

\* No message was received in the last step.
NoMessage ==
  [Message("", FALSE, FALSE, JsonAbsent, JsonAbsent, JsonAbsent, JsonAbsent)
     EXCEPT !.received = FALSE]

NoReply == [sent |-> FALSE, len |-> 0, bytes |-> ""]

MonInit ==
  /\ clock \in ClockSteps
  /\ procs = [p \in Pids |-> NoProcess]
  /\ cpu_core_count = 1
  /\ monotonic_ms = 0
  /\ session = NewSession
  /\ rps = NotCalled
  /\ command = NoCommand
  /\ snapshot = NoSnapshot
  /\ started = FALSE
  /\ message = NoMessage
  /\ reply = NoReply

\* The connections whose write callbacks are followed side by side.
Writers == {1, 2}

\* The zeroed struct sys_stats of the application state.
ZeroStats ==
  [mem_total_kb |-> 0, mem_available_kb |-> 0, uptime_s |-> Real(0),
   load1 |-> Real(0), load5 |-> Real(0), load15 |-> Real(0),
   timestamp_ms |-> 0, delta_ms |-> 0]

\* No sampler run was made in the last step.
NoSample ==
  [taken |-> FALSE, first |-> FALSE, now_mono_ms |-> 0, before_mono_ms |-> 0,
   before_mem_total_kb |-> 0, files |-> "none"]

StatsInit ==
  /\ sys_stats = ZeroStats
  /\ prev_mono_ms = 0
  /\ sample = NoSample
  /\ sent = [c \in Writers |-> [pss |-> NewSession, doc |-> NoSnapshot]]

\* No get_fs_type_for_path call was made yet.
NoFsQuery ==
  [called |-> FALSE, path |-> "", opened |-> FALSE, mounts |-> <<>>,
   found |-> FALSE, fs_type |-> ""]

FsInit == fs_query = NoFsQuery

\* No parse_proc_stat_times call was made yet.
NoStatParse ==
  [called |-> FALSE, line |-> "", name |-> "", state |-> "", fields |-> <<>>,
   ok |-> FALSE, utime |-> 0, stime |-> 0]

ParseInit == stat_parse = NoStatParse

Init ==
  /\ WsInit
  /\ JsonInit
  /\ CpuInit
  /\ MonInit
  /\ StatsInit
  /\ FsInit
  /\ ParseInit

Next ==
  \/ ws_server_start
  \/ ws_server_stop
  \/ ws_server_stop_done
  \/ on_unix_signal
  \/ main_exit
  \/ stats_timer_cb
  \/ lws_glib_service
  \/ \E c \in Conns : FilterProtocolConnection(c)
  \/ \E c \in Conns : Established(c)
  \/ \E c \in Conns : Timer(c)
  \/ \E c \in Conns : WriteableCallback(c)
  \/ \E c \in Conns : Closed(c)
  \/ \E c \in Conns : WsiDestroy(c)

Spec == Init /\ [][Next]_vars

\* The lifecycle under the scheduling the code relies on: while the service
\* timer drives lws_service(), the transport delivers a due TIMER and a due
\* WRITEABLE callback of every connection; main() runs on to its exit label
\* once the main loop has quit; lws_context_destroy() closes every
\* connection that is still established.
\* Progress is followed for one connection attempt fewer, and without the
\* bookkeeping of lws_service() calls.
SendConns == 1..(NumConns - 1)

NextSend ==
  \/ ws_server_start
  \/ ws_server_stop
  \/ ws_server_stop_done
  \/ on_unix_signal
  \/ main_exit
  \/ stats_timer_cb
  \/ \E c \in SendConns : FilterProtocolConnection(c)
  \/ \E c \in SendConns : Established(c)
  \/ \E c \in SendConns : Timer(c)
  \/ \E c \in SendConns : WriteableCallback(c)
  \/ \E c \in SendConns : Closed(c)
  \/ \E c \in SendConns : WsiDestroy(c)

SpecSend ==
  /\ Init
  /\ [][NextSend]_vars
  /\ \A c \in SendConns : WF_vars(Timer(c))
  /\ \A c \in SendConns : WF_vars(WriteableCallback(c))
  /\ WF_vars(main_exit)
  /\ \A c \in SendConns : WF_vars(srv = "destroying" /\ Closed(c))

(***************************************************************************)
(* Connection accounting: properties.                                      *)
(***************************************************************************)

\* Connections that passed admission, did not reach ESTABLISHED and are
\* not destroyed: each of them holds a pending slot.
Handshaking == {c \in Conns : wsi[c] \in {"admitted", "aborted"}}

\* Release decrements made so far by the handlers of connection c.
Releases(c) == released[c].pending + released[c].connected

\* C1: for every callback sequence the transport may deliver,
\* ws_connected_client_count + ws_pending_client_count never exceeds
\* MAX_WS_CONNECTED_CLIENTS and neither counter goes below zero.
C1_SumWithinLimit ==
  /\ ws_connected_client_count + ws_pending_client_count
       <= MAX_WS_CONNECTED_CLIENTS
  /\ ws_pending_client_count >= 0
  /\ ws_connected_client_count >= 0

\* C2: over the lifetime of each admitted connection exactly one release
\* decrement is made on its behalf, of pending or of connected: never both,
\* never twice, and never none once the connection is destroyed.
C2_ExactlyOneRelease ==
  \A c \in Conns :
    /\ Releases(c) <= 1
    /\ (admitted[c] /\ wsi[c] = "destroyed") => Releases(c) = 1

\* C3: ws_pending_client_count is the number of admitted connections that
\* are neither established nor destroyed, ws_connected_client_count the
\* number of established connections not yet closed; both are 0 once every
\* connection is destroyed.
C3_CountersExact ==
  /\ ws_pending_client_count = Cardinality(Handshaking)
  /\ ws_connected_client_count = Cardinality(Active)

\* C4: admission rejects exactly when connected + pending has reached
\* MAX_WS_CONNECTED_CLIENTS and otherwise increments pending by one; no
\* callback of a rejected connection, the rejection and its WSI_DESTROY
\* included, changes pending or connected.
C4_RejectedChangesNothing ==
  [][\A c \in Conns :
       /\ (wsi[c] = "none" /\ wsi'[c] # "none") =>
            IF ws_connected_client_count + ws_pending_client_count
                 >= MAX_WS_CONNECTED_CLIENTS
            THEN /\ wsi'[c] = "rejected"
                 /\ ws_pending_client_count' = ws_pending_client_count
                 /\ ws_connected_client_count' = ws_connected_client_count
            ELSE /\ wsi'[c] = "admitted"
                 /\ ws_pending_client_count' = ws_pending_client_count + 1
                 /\ ws_connected_client_count' = ws_connected_client_count
       /\ (wsi[c] = "rejected" /\ wsi'[c] # "rejected") =>
            /\ ws_pending_client_count' = ws_pending_client_count
            /\ ws_connected_client_count' = ws_connected_client_count
    ]_vars

\* C5: between ws_server_start and ws_server_stop the stats timer is armed
\* exactly while at least one connection is established and not yet closed,
\* and stats_timer_cb never runs with zero such connections.
C5_TimerIffActive ==
  /\ srv = "running" => (stats_timer_id # 0 <=> Active # {})
  /\ last_tick_active # 0

\* C5 witness: the sampler ran for an established connection, and after the
\* last connection closed the timer is off again while the server runs.
C5_Witness ==
  /\ srv = "running"
  /\ last_tick_active >= 1
  /\ stats_timer_id = 0
  /\ \E c \in Conns : wsi[c] = "closed"

\* C23: on shutdown the sampler timer and the service timer are both
\* removed before lws_context_destroy is called, and lws_service is never
\* called once the context has been destroyed; the callbacks delivered
\* during the destruction arm no timer.
C23_TimersRemovedBeforeDestroy ==
  /\ srv \in {"quitting", "destroying", "stopped"} =>
       stats_timer_id = 0 /\ lws_timer_id = 0
  /\ ~serviced.late

\* C23 witness: the server stopped after the service timer and the sampler
\* had run and a connection had been established.
C23_Witness ==
  /\ srv = "stopped"
  /\ serviced.live
  /\ last_tick_active >= 1
  /\ \E c \in Conns : wsi[c] = "destroyed" /\ counted[c]

(***************************************************************************)
(* jansson as json_out.c uses it: values are dumped with JSON_COMPACT,     *)
(* object members in insertion order.                                      *)
(***************************************************************************)

\* Escaping of a string value: '"' and '\' get a backslash.
RECURSIVE JsonEscape(_)
JsonEscape(s) ==
  IF s = ""
  THEN ""
  ELSE IF Len(s) = 1
  THEN (IF s \in {"\"", "\\"} THEN "\\" \o s ELSE s)
  ELSE JsonEscape(SubSeq(s, 1, Len(s) \div 2))
         \o JsonEscape(SubSeq(s, Len(s) \div 2 + 1, Len(s)))

\* json_string(s)
JsonString(s) == "\"" \o JsonEscape(s) \o "\""

\* json_integer(n)
JsonInteger(n) == ToString(n)

\* Digits of rem / den after the decimal point, at most left of them.
RECURSIVE FracDigits(_, _, _)
FracDigits(rem, den, left) ==
  IF rem = 0 \/ left = 0 THEN ""
  ELSE ToString((rem * 10) \div den)
         \o FracDigits((rem * 10) % den, den, left - 1)

\* json_real(x) dumped: printf("%.17g") and ".0" appended when the digits
\* show neither point nor exponent.  The digits are exact for a quotient
\* with a finite expansion of up to 17 digits; otherwise the first 17 are
\* given, where the program's last digits carry the double's rounding.
\* Magnitudes printed with an exponent (below 1e-4, from 1e17) are not
\* covered.
JsonReal(x) ==
  LET n == Abs(x.num)
      frac == FracDigits(n % x.den, x.den, 17)
  IN (IF x.num < 0 THEN "-" ELSE "") \o ToString(n \div x.den) \o "."
       \o (IF frac = "" THEN "0" ELSE frac)

RECURSIVE JoinComma(_)
JoinComma(parts) ==
  IF Len(parts) = 0 THEN ""
  ELSE IF Len(parts) = 1 THEN parts[1]
  ELSE parts[1] \o "," \o JoinComma(Tail(parts))

\* A JSON array of already dumped elements.
JsonArray(elems) == "[" \o JoinComma(elems) \o "]"

\* json_object_set_new(obj, key, value), value already dumped.  The keys
\* are literals of json_out.c without a character to escape.
JsonMember(key, value) == "\"" \o key \o "\":" \o value

\* A JSON object of already dumped members.
JsonObject(members) == "{" \o JoinComma(members) \o "}"

\* json_dumpb(json, buffer, size, flags): the return value.  jansson
\* returns the number of bytes the document needs (a size_t, 0 on error),
\* also when that is more than size; it never returns a negative value.
json_dumpb(doc, size) == Len(doc)

\* json_dumpb: the buffer afterwards.  A document that fits is written
\* whole; of one that does not fit at most size bytes are written and
\* jansson leaves the contents undefined: kept is the number of leading
\* document bytes the buffer happens to hold.
json_dumpb_buffer(doc, size, kept) ==
  IF Len(doc) <= size THEN doc ELSE SubSeq(doc, 1, kept)

\* The outcomes of an overflowing json_dumpb the model distinguishes:
\* nothing of the document is in the buffer, or its first size bytes are.
KeptChoices(size) == {0, size}

(***************************************************************************)
(* proc.c: collect_process_list.                                           *)
(***************************************************************************)

MAX_PROC_NAME_LENGTH == 64

MAX_PROCESS_COUNT == 256

\* The first n bytes of s.
Take(s, n) == SubSeq(s, 1, IF Len(s) < n THEN Len(s) ELSE n)

\* A dedup loop that never finds the name.
NameExists_never(names, buf) ==
  FALSE

\* The dedup loop: some names[i], i < count, equals buf.
NameExists(names, buf) ==
  \E i \in 1..Len(names) : names[i] = buf

\* One iteration of the readdir loop over the entries from index i on;
\* names holds the count names collected so far.
RECURSIVE ScanProc(_, _, _, _)
ScanProc(entries, i, names, max) ==
  IF i > Len(entries)
  THEN names
  ELSE LET ent == entries[i]
           buf == ent.comm
       IN IF ~ent.numeric \/ ~ent.readable
          THEN ScanProc(entries, i + 1, names, max)
          ELSE IF Take(buf, 1) = "["
          THEN ScanProc(entries, i + 1, names, max)
          ELSE IF NameExists(names, buf)
          THEN ScanProc(entries, i + 1, names, max)
          ELSE LET added == Append(names, Take(buf, MAX_PROC_NAME_LENGTH - 1))
               IN IF Len(added) >= max
                  THEN added
                  ELSE ScanProc(entries, i + 1, added, max)

\* collect_process_list(names, max_names): the names written, in order.
collect_process_list(entries, max) == ScanProc(entries, 1, <<>>, max)

(***************************************************************************)
(* storage.c: collect_storage_info.                                        *)
(***************************************************************************)

MAX_STORAGE_MOUNTS == 8

storage_paths ==
  <<"/", "/mnt/flash", "/usr/lib/persistent", "/var/lib", "/var/cache">>

\* strncmp(path, mount_point, len) == 0 && (path[len] == '/' ||
\* path[len] == '\0') with len = strlen(mount_point).
MountCoversPath(path, mount_point) ==
  LET len == Len(mount_point)
  IN /\ Len(path) >= len
     /\ SubSeq(path, 1, len) = mount_point
     /\ (Len(path) = len \/ SubSeq(path, len + 1, len + 1) = "/")

\* The fscanf loop of get_fs_type_for_path over the entries from index i
\* on; an entry with fewer than three fields ends it.  st carries best_len,
\* found and the bytes written to fs_type.
RECURSIVE MountLoop(_, _, _, _, _)
MountLoop(path, mounts, i, fs_type_len, st) ==
  IF i > Len(mounts) \/ ~mounts[i].scanned THEN st
  ELSE IF Len(mounts[i].mount_point) > st.best_len
          /\ MountCoversPath(path, mounts[i].mount_point)
  THEN MountLoop(path, mounts, i + 1, fs_type_len,
                 [best_len |-> Len(mounts[i].mount_point), found |-> TRUE,
                  fs_type |-> Take(mounts[i].type, fs_type_len - 1)])
  ELSE MountLoop(path, mounts, i + 1, fs_type_len, st)

\* get_fs_type_for_path(path, fs_type, fs_type_len) for the outcome of
\* opening /proc/self/mounts and the entries read from it.
get_fs_type_for_path(path, opened, mounts, fs_type_len) ==
  IF ~opened THEN [found |-> FALSE, fs_type |-> ""]
  ELSE LET r == MountLoop(path, mounts, 1, fs_type_len,
                          [best_len |-> 0, found |-> FALSE, fs_type |-> ""])
       IN [found |-> r.found, fs_type |-> r.fs_type]

\* read_storage_for_path(path, out) for the statvfs() outcome vfs; fs is
\* what get_fs_type_for_path resolved ("" = no mount matched).
read_storage_for_path(path, vfs) ==
  LET block_size == IF vfs.f_frsize = 0 THEN vfs.f_bsize ELSE vfs.f_frsize
      total == vfs.f_blocks * block_size
      free  == vfs.f_bfree * block_size
      avail == vfs.f_bavail * block_size
  IN [path |-> path,
      fs_type |-> IF vfs.fs = "" THEN "unknown" ELSE Take(vfs.fs, 31),
      total_kb |-> total \div 1024,
      used_kb |-> (total - free) \div 1024,
      available_kb |-> avail \div 1024]

RECURSIVE ScanStorage(_, _, _, _)
ScanStorage(vfs, i, out, max_entries) ==
  IF i > Len(storage_paths) \/ Len(out) >= max_entries
  THEN out
  ELSE IF ~vfs[i].ok
  THEN ScanStorage(vfs, i + 1, out, max_entries)
  ELSE ScanStorage(vfs, i + 1,
                   Append(out, read_storage_for_path(storage_paths[i], vfs[i])),
                   max_entries)

\* collect_storage_info(out, max_entries): the entries written, in order.
collect_storage_info(vfs, max_entries) ==
  IF max_entries = 0 THEN <<>> ELSE ScanStorage(vfs, 1, <<>>, max_entries)

(***************************************************************************)
(* json_out.c: the builders.                                               *)
(***************************************************************************)

\* The response object of a list builder: {"<key>":[<elements>]}.
ListDocument(key, arr) == JsonObject(<<JsonMember(key, JsonArray(arr))>>)

\* The serialize loop of build_process_list_json and build_storage_json:
\* dump {"<key>":[...]} into the buffer; when json_dumpb reports a negative
\* length drop the last array element and dump again, give up (return 0)
\* when the array is empty.  attempts counts the json_dumpb calls.
RECURSIVE DumpOrTruncate(_, _, _, _, _)
DumpOrTruncate(key, arr, size, truncated, attempts) ==
  LET doc == ListDocument(key, arr)
      out_len == json_dumpb(doc, size)
  IN IF out_len >= 0
     THEN [len |-> out_len, truncated |-> truncated,
           attempts |-> attempts, arr_size |-> Len(arr), doc |-> doc]
     ELSE IF Len(arr) = 0
     THEN [len |-> 0, truncated |-> truncated,
           attempts |-> attempts, arr_size |-> 0, doc |-> doc]
     ELSE DumpOrTruncate(key, SubSeq(arr, 1, Len(arr) - 1), size, TRUE,
                         attempts + 1)

\* The array elements build_process_list_json appends for the names.
ProcessElems(names) ==
  [i \in 1..Len(names) |-> JsonString(names[i])]

\* build_process_list_json(out_buf, out_size, truncated) when the /proc
\* scan reads entries.
build_process_list_json(entries, size) ==
  DumpOrTruncate("processes",
                 ProcessElems(collect_process_list(entries, MAX_PROCESS_COUNT)),
                 size, FALSE, 1)

\* The object build_storage_json appends for one storage_info.
StorageObject(info) ==
  JsonObject(<<JsonMember("path", JsonString(info.path)),
               JsonMember("fs", JsonString(info.fs_type)),
               JsonMember("total_kb", JsonInteger(info.total_kb)),
               JsonMember("used_kb", JsonInteger(info.used_kb)),
               JsonMember("available_kb", JsonInteger(info.available_kb))>>)

StorageElems(infos) ==
  [i \in 1..Len(infos) |-> StorageObject(infos[i])]

\* build_storage_json(out_buf, out_size, truncated) for the statvfs()
\* outcomes vfs of the storage_paths.
build_storage_json(vfs, size) ==
  DumpOrTruncate("storage",
                 StorageElems(collect_storage_info(vfs, MAX_STORAGE_MOUNTS)),
                 size, FALSE, 1)

\* snprintf(msg, sizeof(msg), "Process '%s' not found", name) without the
\* quotes around the name.
NotFoundMessage_unquoted(name) ==
  Take("Process " \o name \o " not found", 127)

\* snprintf(msg, sizeof(msg), "Process '%s' not found", name), msg[128]
NotFoundMessage(name) ==
  Take("Process '" \o name \o "' not found", 127)

\* build_stats_json, lines 93-100: the "proc" object.
ProcObject_without_pid(pss, proc) ==
  JsonObject(<<JsonMember("name", JsonString(pss.proc_name)),
               JsonMember("cpu", JsonReal(proc.cpu)),
               JsonMember("rss_kb", JsonInteger(proc.rss_kb)),
               JsonMember("pss_kb", JsonInteger(proc.pss_kb)),
               JsonMember("uss_kb", JsonInteger(proc.uss_kb))>>)

ProcObject(pss, proc) ==
  JsonObject(<<JsonMember("name", JsonString(pss.proc_name)),
               JsonMember("cpu", JsonReal(proc.cpu)),
               JsonMember("rss_kb", JsonInteger(proc.rss_kb)),
               JsonMember("pss_kb", JsonInteger(proc.pss_kb)),
               JsonMember("uss_kb", JsonInteger(proc.uss_kb)),
               JsonMember("pid", JsonInteger(proc.pid))>>)

\* build_stats_json, lines 112-118: the "error" object.
ErrorObject(pss) ==
  JsonObject(<<JsonMember("type", JsonString("process_not_found")),
               JsonMember("message",
                          JsonString(NotFoundMessage(pss.proc_name)))>>)

\* build_stats_json, lines 73-120: the member added for the monitored
\* process; proc is what read_process_stats returned.
MonitorMember_unconditional(pss, proc) ==
  IF proc.found THEN <<JsonMember("proc", ProcObject(pss, proc))>>
  ELSE <<JsonMember("error", ErrorObject(pss))>>

MonitorMember(pss, proc) ==
  IF ~pss.proc_enabled THEN <<>>
  ELSE IF proc.found THEN <<JsonMember("proc", ProcObject(pss, proc))>>
  ELSE <<JsonMember("error", ErrorObject(pss))>>

\* The document build_stats_json assembles.  cores is cpu_core_count, pss
\* the session (monitor switch and name), proc what read_process_stats
\* returned for it.
StatsDocument(stats, cores, connected_clients, max_clients, pss, proc) ==
  LET clients ==
        JsonObject(<<JsonMember("connected", JsonInteger(connected_clients)),
                     JsonMember("max", JsonInteger(max_clients))>>)
      base ==
        <<JsonMember("ts", JsonInteger(stats.timestamp_ms)),
          JsonMember("mono_ms", JsonInteger(stats.monotonic_ms)),
          JsonMember("delta_ms", JsonInteger(stats.delta_ms)),
          JsonMember("cpu", JsonReal(stats.cpu_usage)),
          JsonMember("cpu_cores", JsonInteger(cores)),
          JsonMember("mem_total_kb", JsonInteger(stats.mem_total_kb)),
          JsonMember("mem_available_kb", JsonInteger(stats.mem_available_kb)),
          JsonMember("uptime_s", JsonReal(stats.uptime_s)),
          JsonMember("load1", JsonReal(stats.load1)),
          JsonMember("load5", JsonReal(stats.load5)),
          JsonMember("load15", JsonReal(stats.load15)),
          JsonMember("clients", clients)>>
  IN JsonObject(base \o MonitorMember(pss, proc))

\* build_stats_json(out_buf, out_size, stats, cpu_core_count,
\*                  connected_clients, max_clients, pss, truncated)
build_stats_json(size, stats, cores, connected_clients, max_clients, pss, proc) ==
  LET doc == StatsDocument(stats, cores, connected_clients, max_clients,
                           pss, proc)
      out_len == json_dumpb(doc, size)
  IN IF size = 0
     THEN [len |-> 0, truncated |-> TRUE, attempts |-> 0, arr_size |-> 0,
           doc |-> ""]
     ELSE IF out_len < 0
     THEN [len |-> 0, truncated |-> TRUE, attempts |-> 1, arr_size |-> 0,
           doc |-> doc]
     ELSE [len |-> out_len, truncated |-> FALSE, attempts |-> 1,
           arr_size |-> 0, doc |-> doc]

(***************************************************************************)
(* Inputs of the one-shot collectors and of the builders.                  *)
(***************************************************************************)

\* Longest /proc listing collect_process_list reads when called on its own.
MaxProcEntries == 4

\* Longest /proc listing read for a list_processes request.
MaxListedProcs == 3

\* Largest max_names passed to collect_process_list on its own.
MaxNames == 2

\* Largest buffer size tried for each builder.
MaxListOutSize == 40

MaxStorageOutSize == 200

MaxStatsOutSize == 310

\* Short names read from /proc/<pid>/comm.
CommNames == {"sh", "a\"b", "[kth]"}

\* What readdir() and the read of comm yield for one /proc entry: a
\* non-numeric entry, a pid whose comm cannot be read, a pid with a name.
ProcDirents ==
  {[numeric |-> FALSE, readable |-> FALSE, comm |-> ""],
   [numeric |-> TRUE, readable |-> FALSE, comm |-> ""]}
  \cup {[numeric |-> TRUE, readable |-> TRUE, comm |-> n] : n \in CommNames}

ProcListings(max_len) == UNION {[1..n -> ProcDirents] : n \in 0..max_len}

\* statvfs() outcomes: a failure, a filesystem with f_frsize set, one that
\* reports f_frsize 0 and has no entry in the mount table.
VfsFail ==
  [ok |-> FALSE, f_frsize |-> 0, f_bsize |-> 0, f_blocks |-> 0,
   f_bfree |-> 0, f_bavail |-> 0, fs |-> ""]

VfsMounted ==
  [ok |-> TRUE, f_frsize |-> 1024, f_bsize |-> 4096, f_blocks |-> 16,
   f_bfree |-> 6, f_bavail |-> 4, fs |-> "ext4"]

VfsNoFrsize ==
  [ok |-> TRUE, f_frsize |-> 0, f_bsize |-> 4096, f_blocks |-> 3,
   f_bfree |-> 1, f_bavail |-> 1, fs |-> ""]

\* Each storage path either fails or yields its filesystem.
VfsOutcomes ==
  {v \in [1..Len(storage_paths) -> {VfsFail, VfsMounted, VfsNoFrsize}] :
     \A i \in 1..Len(storage_paths) :
       v[i].ok => v[i] = (IF i % 2 = 1 THEN VfsMounted ELSE VfsNoFrsize)}

\* Snapshots of app->stats: the zeroed one and a sampled one.
StatsSamples ==
  {[cpu_usage |-> Real(0), mem_total_kb |-> 0, mem_available_kb |-> 0,
    uptime_s |-> Real(0), load1 |-> Real(0), load5 |-> Real(0),
    load15 |-> Real(0),
    timestamp_ms |-> 0, monotonic_ms |-> 0, delta_ms |-> 0],
   [cpu_usage |-> Real(5), mem_total_kb |-> 981716,
    mem_available_kb |-> 531704, uptime_s |-> Real(4689109),
    load1 |-> Real(1), load5 |-> Real(0), load15 |-> Real(0),
    timestamp_ms |-> 1766089635, monotonic_ms |-> 468910952,
    delta_ms |-> 500]}

\* The session's monitor settings with what read_process_stats returns:
\* monitoring off, process found, process not found.
MonitorCases ==
  {[pss |-> [proc_enabled |-> FALSE, proc_name |-> ""],
    proc |-> [found |-> FALSE, cpu |-> Real(0), rss_kb |-> 0, pss_kb |-> 0,
              uss_kb |-> 0, pid |-> 0]],
   [pss |-> [proc_enabled |-> TRUE, proc_name |-> "sh"],
    proc |-> [found |-> TRUE, cpu |-> Real(12), rss_kb |-> 2048,
              pss_kb |-> 1024,
              uss_kb |-> 512, pid |-> 4242]],
   [pss |-> [proc_enabled |-> TRUE, proc_name |-> "nonexistent_xyz"],
    proc |-> [found |-> FALSE, cpu |-> Real(0), rss_kb |-> 0, pss_kb |-> 0,
              uss_kb |-> 0, pid |-> 0]]}

CoreCounts == {1, 4}

(***************************************************************************)
(* The operations as actions.                                              *)
(***************************************************************************)

\* The builder's return values kept in the state.
Returned(r) ==
  [len |-> r.len, truncated |-> r.truncated, attempts |-> r.attempts,
   arr_size |-> r.arr_size]

\* lws_write(wsi, buf, len, LWS_WRITE_TEXT): len bytes are handed over; the
\* buffer's own bytes come first.
lws_write(buf, len) ==
  [sent |-> TRUE, len |-> len, bytes |-> Take(buf, len)]

NothingSent == [sent |-> FALSE, len |-> 0, bytes |-> ""]

\* collect_process_list called on its own with a caller-chosen max_names.
CollectProcessList ==
  /\ op = "none"
  /\ \E entries \in ProcListings(MaxProcEntries), max \in 1..MaxNames :
    /\ op' = "collect"
    /\ proc_entries' = entries
    /\ max_names' = max
    /\ proc_names' = collect_process_list(entries, max)
    /\ UNCHANGED <<out_size, collected, res, out_buf, frame>>
    /\ UNCHANGED <<wsVars, cpuVars, monVars, statsVars, fsVars, parseVars>>

\* LWS_CALLBACK_RECEIVE with {"list_processes": true}: build the list into
\* pss->list_buf and send it when the builder returned a length.
ReceiveListProcesses ==
  /\ op = "none"
  /\ \E entries \in ProcListings(MaxListedProcs),
        size \in 0..MaxListOutSize :
    LET names == collect_process_list(entries, MAX_PROCESS_COUNT)
        r == build_process_list_json(entries, size)
    IN \E kept \in KeptChoices(size) :
         /\ op' = "processes"
         /\ proc_entries' = entries
         /\ max_names' = MAX_PROCESS_COUNT
         /\ proc_names' = names
         /\ out_size' = size
         /\ collected' = ProcessElems(names)
         /\ res' = Returned(r)
         /\ out_buf' = json_dumpb_buffer(r.doc, size, kept)
         /\ frame' = IF r.len > 0 THEN lws_write(out_buf', r.len)
                     ELSE NothingSent
         /\ UNCHANGED <<wsVars, cpuVars, monVars, statsVars, fsVars, parseVars>>

\* LWS_CALLBACK_RECEIVE with {"storage": true}.
ReceiveStorage ==
  /\ op = "none"
  /\ \E vfs \in VfsOutcomes, size \in 0..MaxStorageOutSize :
    LET r == build_storage_json(vfs, size)
    IN \E kept \in KeptChoices(size) :
         /\ op' = "storage"
         /\ out_size' = size
         /\ collected' =
              StorageElems(collect_storage_info(vfs, MAX_STORAGE_MOUNTS))
         /\ res' = Returned(r)
         /\ out_buf' = json_dumpb_buffer(r.doc, size, kept)
         /\ frame' = IF r.len > 0 THEN lws_write(out_buf', r.len)
                     ELSE NothingSent
         /\ UNCHANGED <<proc_entries, max_names, proc_names>>
         /\ UNCHANGED <<wsVars, cpuVars, monVars, statsVars, fsVars, parseVars>>

\* LWS_CALLBACK_SERVER_WRITEABLE: build the snapshot into json[], drop it
\* when the builder returned 0 or reported truncation, else copy it to
\* pss->stream_buf and send json_len bytes.
ServerWriteable ==
  /\ op = "none"
  /\ \E stats \in StatsSamples, mon \in MonitorCases, cores \in CoreCounts,
        connected \in 1..MAX_WS_CONNECTED_CLIENTS,
        size \in 0..MaxStatsOutSize :
    LET r == build_stats_json(size, stats, cores, connected,
                              MAX_WS_CONNECTED_CLIENTS, mon.pss, mon.proc)
    IN \E kept \in KeptChoices(size) :
         /\ op' = "stats"
         /\ out_size' = size
         /\ collected' = <<>>
         /\ res' = Returned(r)
         /\ out_buf' = json_dumpb_buffer(r.doc, size, kept)
         /\ frame' = IF r.len <= 0 \/ r.truncated THEN NothingSent
                     ELSE lws_write(out_buf', r.len)
         /\ UNCHANGED <<proc_entries, max_names, proc_names>>
         /\ UNCHANGED <<wsVars, cpuVars, monVars, statsVars, fsVars, parseVars>>

\* The callback returns to the event loop, which waits for the next one.
ReturnToLoop ==
  /\ op # "none"
  /\ op' = "none"
  /\ proc_entries' = <<>>
  /\ max_names' = 0
  /\ proc_names' = <<>>
  /\ out_size' = 0
  /\ collected' = <<>>
  /\ res' = [len |-> 0, truncated |-> FALSE, attempts |-> 0, arr_size |-> 0]
  /\ out_buf' = ""
  /\ frame' = NothingSent
  /\ UNCHANGED <<wsVars, cpuVars, monVars, statsVars, fsVars, parseVars>>

NextJson ==
  \/ ReturnToLoop
  \/ CollectProcessList
  \/ ReceiveListProcesses
  \/ ReceiveStorage
  \/ ServerWriteable

SpecJson == Init /\ [][NextJson]_vars

(***************************************************************************)
(* Builders and collectors: properties.                                    *)
(***************************************************************************)

\* A structural check of a byte string: it starts with '{', every bracket
\* and string opened is closed, and the outermost object closes exactly at
\* the last byte.
RECURSIVE JsonScan(_, _, _, _, _)
JsonScan(s, i, depth, inStr, esc) ==
  IF i > Len(s)
  THEN FALSE
  ELSE LET c == SubSeq(s, i, i)
       IN IF inStr
          THEN IF esc THEN JsonScan(s, i + 1, depth, TRUE, FALSE)
               ELSE IF c = "\\" THEN JsonScan(s, i + 1, depth, TRUE, TRUE)
               ELSE IF c = "\"" THEN JsonScan(s, i + 1, depth, FALSE, FALSE)
               ELSE JsonScan(s, i + 1, depth, TRUE, FALSE)
          ELSE IF c = "\"" THEN JsonScan(s, i + 1, depth, TRUE, FALSE)
               ELSE IF c \in {"{", "["} THEN JsonScan(s, i + 1, depth + 1, FALSE, FALSE)
               ELSE IF c \in {"}", "]"}
               THEN IF depth = 1 THEN i = Len(s)
                    ELSE depth > 1 /\ JsonScan(s, i + 1, depth - 1, FALSE, FALSE)
               ELSE depth > 0 /\ JsonScan(s, i + 1, depth, FALSE, FALSE)

IsCompleteJson(s) == Take(s, 1) = "{" /\ JsonScan(s, 1, 0, FALSE, FALSE)

\* The key of the list response the last operation built.
ListKey == IF op = "processes" THEN "processes" ELSE "storage"

\* The list response holding the first k collected elements.
PrefixDocument(k) == ListDocument(ListKey, SubSeq(collected, 1, k))

\* The prefixes of the collection whose response fits the buffer.
FittingPrefixes ==
  {k \in 0..Len(collected) : Len(PrefixDocument(k)) <= out_size}

\* C6: build_stats_json returns 0 with *truncated set, or a length L with
\* 0 < L <= out_size and out_buf[0..L) one complete JSON document; the
\* SERVER_WRITEABLE callback sends bytes only in the second case, so a
\* snapshot that does not fit is dropped whole.
C6_StatsWholeOrDropped ==
  op = "stats" =>
    /\ \/ res.len = 0 /\ res.truncated
       \/ /\ 0 < res.len
          /\ res.len <= out_size
          /\ IsCompleteJson(Take(out_buf, res.len))
    /\ frame.sent =>
         /\ 0 < res.len
         /\ res.len <= out_size
         /\ frame.len = Len(frame.bytes)
         /\ IsCompleteJson(frame.bytes)

\* C7: build_process_list_json and build_storage_json return 0 (nothing is
\* sent) or a length L <= out_size whose bytes are the complete response
\* for a prefix, in collection order, of the collected list; the caller
\* never sends more bytes than the buffer holds.
C7_ListIsWholePrefix ==
  op \in {"processes", "storage"} =>
    /\ res.len = 0 => ~frame.sent
    /\ res.len # 0 =>
         /\ res.len <= out_size
         /\ IsCompleteJson(Take(out_buf, res.len))
         /\ \E k \in 0..Len(collected) :
              Take(out_buf, res.len) = PrefixDocument(k)
    /\ frame.sent => frame.len <= out_size

\* C8: the truncate-and-retry loop removes exactly one tail element after
\* each serialization attempt that did not fit, stops after at most n + 1
\* attempts for n elements, and returns 0 when not even the empty
\* collection can be serialized.
C8_RetryRemovesTail ==
  op \in {"processes", "storage"} =>
    /\ res.attempts <= Len(collected) + 1
    /\ res.arr_size = Len(collected) - (res.attempts - 1)
    /\ \A k \in (res.arr_size + 1)..Len(collected) :
         Len(PrefixDocument(k)) > out_size
    /\ res.len # 0 => Len(PrefixDocument(res.arr_size)) <= out_size
    /\ Len(PrefixDocument(0)) > out_size => res.len = 0

\* C9: build_storage_json drops elements only when the full list does not
\* fit: if it fits every entry is present and *truncated is false;
\* otherwise the output holds the longest prefix that fits and *truncated
\* is true.
C9_StorageLongestPrefix ==
  op = "storage" =>
    IF Len(PrefixDocument(Len(collected))) <= out_size
    THEN /\ res.arr_size = Len(collected)
         /\ ~res.truncated
         /\ res.len = Len(PrefixDocument(Len(collected)))
         /\ out_buf = PrefixDocument(Len(collected))
    ELSE /\ res.truncated
         /\ \A k \in FittingPrefixes : k <= res.arr_size
         /\ FittingPrefixes # {} =>
              /\ res.arr_size \in FittingPrefixes
              /\ Take(out_buf, res.len) = PrefixDocument(res.arr_size)

\* The /proc entries collect_process_list may take a name from.
NamedEntries ==
  {i \in 1..Len(proc_entries) :
     /\ proc_entries[i].numeric
     /\ proc_entries[i].readable
     /\ Take(proc_entries[i].comm, 1) # "["}

\* The entries that are the first to carry their name.
FirstOccurrences ==
  {i \in NamedEntries :
     \A j \in NamedEntries : j < i => proc_entries[j].comm # proc_entries[i].comm}

\* C10: the list collect_process_list produces never holds a name twice
\* (the first occurrence of a name is the one listed), never a name that
\* begins with '[', and never more than max_names entries.
C10_ProcessListUniqueCapped ==
  op \in {"collect", "processes"} =>
    /\ \A i, j \in 1..Len(proc_names) :
         i # j => proc_names[i] # proc_names[j]
    /\ \A i \in 1..Len(proc_names) : Take(proc_names[i], 1) # "["
    /\ Len(proc_names) <= max_names
    /\ Len(proc_names) <= Cardinality(FirstOccurrences)
    /\ \A i \in 1..Len(proc_names) :
         \E e \in FirstOccurrences :
           /\ proc_entries[e].comm = proc_names[i]
           /\ Cardinality({f \in FirstOccurrences : f < e}) = i - 1

\* C10 witness: a scan that met a repeated name and a bracketed name and
\* stopped at max_names with more names left to list.
C10_Witness ==
  /\ op = "collect"
  /\ Cardinality(NamedEntries) > Cardinality(FirstOccurrences)
  /\ \E i \in 1..Len(proc_entries) : Take(proc_entries[i].comm, 1) = "["
  /\ Cardinality(FirstOccurrences) > max_names
  /\ Len(proc_names) = max_names

(***************************************************************************)
(* stats.c: the system CPU usage.                                          *)
(***************************************************************************)

\* read_cpu_stats(stats) for the static state st and the /proc/stat
\* reading line: the new static state and stats->cpu_usage.
read_cpu_stats_keeps_baseline(st, line) ==
  LET idle_time == line.idle + line.iowait
      total_time == line.user + line.nice + line.system + line.idle
                      + line.iowait + line.irq + line.softirq + line.steal
      delta_idle == idle_time - st.prev_idle
      delta_total == total_time - st.prev_total
  IN IF ~line.parsed
     THEN [st EXCEPT !.cpu_usage = Real(0)]
     ELSE IF ~st.initialized
     THEN [prev_idle |-> idle_time, prev_total |-> total_time,
           initialized |-> TRUE, cpu_usage |-> Real(0)]
     ELSE IF idle_time < st.prev_idle \/ total_time < st.prev_total
     THEN [st EXCEPT !.cpu_usage = Real(0)]
     ELSE [prev_idle |-> idle_time, prev_total |-> total_time,
           initialized |-> TRUE,
           cpu_usage |-> IF delta_total > 0
                         THEN Ratio(100 * (delta_total - delta_idle),
                                    delta_total)
                         ELSE Real(0)]

read_cpu_stats_failed_read_resets(st, line) ==
  LET idle_time == line.idle + line.iowait
      total_time == line.user + line.nice + line.system + line.idle
                      + line.iowait + line.irq + line.softirq + line.steal
      delta_idle == idle_time - st.prev_idle
      delta_total == total_time - st.prev_total
  IN IF ~line.parsed
     THEN [prev_idle |-> 0, prev_total |-> 0, initialized |-> FALSE,
           cpu_usage |-> Real(0)]
     ELSE IF ~st.initialized \/ idle_time < st.prev_idle
               \/ total_time < st.prev_total
     THEN [prev_idle |-> idle_time, prev_total |-> total_time,
           initialized |-> TRUE, cpu_usage |-> Real(0)]
     ELSE [prev_idle |-> idle_time, prev_total |-> total_time,
           initialized |-> TRUE,
           cpu_usage |-> IF delta_total > 0
                         THEN Ratio(100 * (delta_total - delta_idle),
                                    delta_total)
                         ELSE Real(0)]

read_cpu_stats(st, line) ==
  LET idle_time == line.idle + line.iowait
      total_time == line.user + line.nice + line.system + line.idle
                      + line.iowait + line.irq + line.softirq + line.steal
      delta_idle == idle_time - st.prev_idle
      delta_total == total_time - st.prev_total
  IN IF ~line.parsed
     THEN [st EXCEPT !.cpu_usage = Real(0)]
     ELSE IF ~st.initialized
     THEN [prev_idle |-> idle_time, prev_total |-> total_time,
           initialized |-> TRUE, cpu_usage |-> Real(0)]
     ELSE IF idle_time < st.prev_idle \/ total_time < st.prev_total
     THEN [prev_idle |-> idle_time, prev_total |-> total_time,
           initialized |-> TRUE, cpu_usage |-> Real(0)]
     ELSE [prev_idle |-> idle_time, prev_total |-> total_time,
           initialized |-> TRUE,
           cpu_usage |-> IF delta_total > 0
                         THEN Ratio(100 * (delta_total - delta_idle),
                                    delta_total)
                         ELSE Real(0)]

\* Largest value of one counter of the "cpu" line.
MaxJiffies == 2

\* The counters nice, system, irq, softirq, steal of a reading: all zero,
\* or one of them 1.
OtherCounters ==
  {[k \in 1..5 |-> IF k = j THEN 1 ELSE 0] : j \in 0..5}

\* What a read of /proc/stat yields: fopen() fails, fgets() fails, the
\* line does not scan as "cpu" with eight counters, or eight counters.
\* The counters stay far below 2^64, where unsigned long long wraps.
StatLines ==
  {NoStatLine(why) : why \in {"fopen", "fgets", "sscanf"}}
  \cup {[parsed |-> TRUE, why |-> "", user |-> u, nice |-> o[1],
         system |-> o[2], idle |-> i, iowait |-> w, irq |-> o[3],
         softirq |-> o[4], steal |-> o[5]] :
          u \in 0..MaxJiffies, i \in 0..MaxJiffies, w \in 0..MaxJiffies,
          o \in OtherCounters}

\* One call of read_cpu_stats(&app->stats) by the sampler.
ReadCpuStats ==
  \E line \in StatLines :
    LET r == read_cpu_stats([prev_idle |-> prev_idle,
                             prev_total |-> prev_total,
                             initialized |-> initialized,
                             cpu_usage |-> cpu_usage], line)
    IN /\ stat_line' = line
       /\ prev_idle' = r.prev_idle
       /\ prev_total' = r.prev_total
       /\ initialized' = r.initialized
       /\ cpu_usage' = r.cpu_usage
       /\ UNCHANGED <<wsVars, jsonVars, monVars, statsVars, fsVars, parseVars>>

NextCpu == ReadCpuStats

SpecCpu == Init /\ [][NextCpu]_vars

(***************************************************************************)
(* stats.c: memory, uptime, load and the timestamps of a sample.           *)
(***************************************************************************)

\* One line of /proc/meminfo as the two sscanf calls see it: its label and
\* whether a decimal number follows the colon.
MemLine(label, has_number, value) ==
  [label |-> label, has_number |-> has_number, value |-> value]

\* sscanf(line, "<label>: %ld kB", &value) == 1
ScansAs(line, label) == line.label = label /\ line.has_number

\* The loop of read_mem_stats over the lines from index i on; st carries
\* the two fields and the got_total and got_avail flags.
RECURSIVE MemLoop(_, _, _)
MemLoop(lines, i, st) ==
  IF i > Len(lines) THEN st
  ELSE IF ~st.got_total /\ ScansAs(lines[i], "MemTotal")
  THEN MemLoop(lines, i + 1,
               [st EXCEPT !.mem_total_kb = lines[i].value,
                          !.got_total = TRUE])
  ELSE IF ~st.got_avail /\ ScansAs(lines[i], "MemAvailable")
  THEN MemLoop(lines, i + 1,
               [st EXCEPT !.mem_available_kb = lines[i].value,
                          !.got_avail = TRUE])
  ELSE IF st.got_total /\ st.got_avail THEN st
  ELSE MemLoop(lines, i + 1, st)

\* read_mem_stats(stats); meminfo is what fopen() and fgets() yield.
read_mem_stats_keeps_old(stats, meminfo) ==
  LET r == MemLoop(meminfo.lines, 1,
                   [mem_total_kb |-> stats.mem_total_kb,
                    mem_available_kb |-> stats.mem_available_kb,
                    got_total |-> FALSE, got_avail |-> FALSE])
  IN IF ~meminfo.opened THEN stats
     ELSE [stats EXCEPT !.mem_total_kb = r.mem_total_kb,
                        !.mem_available_kb = r.mem_available_kb]

read_mem_stats(stats, meminfo) ==
  LET cleared == [stats EXCEPT !.mem_total_kb = 0, !.mem_available_kb = 0]
      r == MemLoop(meminfo.lines, 1,
                   [mem_total_kb |-> 0, mem_available_kb |-> 0,
                    got_total |-> FALSE, got_avail |-> FALSE])
  IN IF ~meminfo.opened THEN cleared
     ELSE [cleared EXCEPT !.mem_total_kb = r.mem_total_kb,
                          !.mem_available_kb = r.mem_available_kb]

\* sscanf(line, "%lf %lf ...") == n for the first line of a file: fields
\* are the leading numbers of the line, none when fopen() or fgets() fails.
Scanned(file, n) == file.opened /\ file.got_line /\ Len(file.fields) >= n

\* read_uptime_load(stats)
read_uptime_load(stats, uptime, loadavg) ==
  LET cleared == [stats EXCEPT !.uptime_s = Real(0), !.load1 = Real(0),
                               !.load5 = Real(0), !.load15 = Real(0)]
      up == IF Scanned(uptime, 2)
            THEN [cleared EXCEPT !.uptime_s = uptime.fields[1]]
            ELSE cleared
  IN IF Scanned(loadavg, 3)
     THEN [up EXCEPT !.load1 = loadavg.fields[1],
                     !.load5 = loadavg.fields[2],
                     !.load15 = loadavg.fields[3]]
     ELSE up

\* stats_timer_cb, lines 249-254: the elapsed time between two samples.
DeltaMs(prev, now) == IF prev # 0 /\ now >= prev THEN now - prev ELSE 0

\* The body of the sampler callback (stats.c, stats_timer_cb; ws_server.c
\* calls it update_sys_stats): the sample taken from the readings env, for
\* the static state cpu of read_cpu_stats, the snapshot stats and the
\* static prev_mono_ms prev.
update_sys_stats(cpu, stats, prev, env) ==
  LET c == read_cpu_stats(cpu, env.stat)
      m == read_mem_stats(stats, env.meminfo)
      u == read_uptime_load(m, env.uptime, env.loadavg)
  IN [cpu |-> c,
      stats |-> [u EXCEPT !.timestamp_ms = env.realtime_ms,
                          !.delta_ms = DeltaMs(prev, env.now_mono_ms)],
      monotonic_ms |-> env.now_mono_ms,
      prev_mono_ms |-> env.now_mono_ms]

(***************************************************************************)
(* The system CPU usage: properties.                                       *)
(***************************************************************************)

\* C11: after every call of read_cpu_stats, whatever /proc/stat yielded
\* (counters that reset, single fields that decrease, lines that do not
\* parse), the snapshot's cpu_usage lies in [0, 100] and is not negative.
C11_CpuUsageInRange ==
  /\ cpu_usage.num >= 0
  /\ cpu_usage.num <= 100 * cpu_usage.den

IdleTime(line) == line.idle + line.iowait

TotalTime(line) ==
  line.user + line.nice + line.system + line.idle + line.iowait + line.irq
    + line.softirq + line.steal

\* C12: with idle_time = idle + iowait and total_time the sum of the eight
\* fields, the first successful call stores the pair as baseline and reports
\* 0; a later call with idle_time or total_time below the baseline stores
\* the pair and reports 0; any other call reports
\* 100 * (1 - delta_idle / delta_total) when delta_total > 0, and 0 when
\* delta_total = 0, and stores the pair as well.
C12_CpuBaselineRule ==
  [][(cpuVars' # cpuVars /\ stat_line'.parsed) =>
       LET it == IdleTime(stat_line')
           tt == TotalTime(stat_line')
           di == it - prev_idle
           dt == tt - prev_total
       IN /\ initialized'
          /\ prev_idle' = it
          /\ prev_total' = tt
          /\ IF ~initialized \/ it < prev_idle \/ tt < prev_total
             THEN cpu_usage' = Real(0)
             ELSE IF dt > 0
             THEN /\ cpu_usage'.num * dt = 100 * (dt - di) * cpu_usage'.den
                  /\ cpu_usage'.den > 0
             ELSE cpu_usage' = Real(0)]_vars

\* C12 witness: a call computed a usage from two deltas, half of the
\* interval idle, after an earlier call had stored the baseline.
C12_Witness ==
  /\ initialized
  /\ stat_line.parsed
  /\ cpu_usage = Real(50)
  /\ prev_total > 0

(***************************************************************************)
(* proc.c: the per-connection process monitor.                             *)
(***************************************************************************)

\* sysconf(_SC_CLK_TCK): jiffies per second, positive on Linux (the guard
\* clk_tck <= 0 of read_process_stats never fires).
clk_tck == 100

\* /proc/<pid>/status and /proc/<pid>/smaps_rollup of a process, in kB.
ProcMemory(pid) ==
  [VmRSS |-> 2048 * pid, Pss |-> 1024 * pid, Private_Clean |-> 256 * pid,
   Private_Dirty |-> 128 * pid, Private_Hugetlb |-> 0,
   Private_Shmem |-> 64 * pid]

\* pid_matches_comm(pid, proc_name): /proc/<pid>/comm exists and holds
\* proc_name.
pid_matches_comm_trusting(pid, proc_name, table) ==
  pid > 0 /\ proc_name # ""

pid_matches_comm(pid, proc_name, table) ==
  IF pid <= 0 \/ proc_name = "" THEN FALSE
  ELSE IF pid \notin DOMAIN table \/ table[pid].comm = "" THEN FALSE
  ELSE table[pid].comm = proc_name

\* The readdir() loop of find_pid_by_comm from entry p on; /proc lists the
\* process ids in ascending order.
RECURSIVE ScanComm(_, _, _)
ScanComm(proc_name, table, p) ==
  IF p \notin DOMAIN table THEN 0
  ELSE IF table[p].comm = "" THEN ScanComm(proc_name, table, p + 1)
  ELSE IF Take(table[p].comm, 1) = "[" THEN ScanComm(proc_name, table, p + 1)
  ELSE IF table[p].comm = proc_name THEN p
  ELSE ScanComm(proc_name, table, p + 1)

\* find_pid_by_comm(proc_name): the first pid whose comm is proc_name, or 0.
find_pid_by_comm(proc_name, table) ==
  IF proc_name = "" THEN 0 ELSE ScanComm(proc_name, table, 1)

\* The baseline fields set to "unset".
ClearBaseline(s) ==
  [s EXCEPT !.prev_proc_utime = 0, !.prev_proc_stime = 0,
            !.prev_proc_sample_mono_ms = 0]

\* read_process_stats, lines 263-276: resolve the pid by a scan when none is
\* cached, else re-validate the cached one and on mismatch clear it with the
\* baseline and scan.
ResolvePid_keeps_baseline(proc_name, s, table) ==
  IF s.proc_pid = 0 \/ ~pid_matches_comm(s.proc_pid, proc_name, table)
  THEN [s EXCEPT !.proc_pid = find_pid_by_comm(proc_name, table)]
  ELSE s

ResolvePid(proc_name, s, table) ==
  IF s.proc_pid = 0
  THEN [s EXCEPT !.proc_pid = find_pid_by_comm(proc_name, table)]
  ELSE IF ~pid_matches_comm(s.proc_pid, proc_name, table)
  THEN [ClearBaseline(s) EXCEPT
          !.proc_pid = find_pid_by_comm(proc_name, table)]
  ELSE s

\* read_process_stats, line 391: process restarted or clock anomaly.
NeedsRebaseline_ignores_restart(curr_total, prev_tot, now_mono_ms, prev_ms) ==
  now_mono_ms <= prev_ms

NeedsRebaseline(curr_total, prev_tot, now_mono_ms, prev_ms) ==
  curr_total < prev_tot \/ now_mono_ms <= prev_ms

\* read_process_stats, lines 403-415: the percentage for delta_jiffies over
\* delta_ms milliseconds (delta_seconds = delta_ms / 1000.0).
ProcCpuPercent_per_core(delta_jiffies, delta_ms, cores) ==
  IF delta_ms > 0
  THEN Ratio(delta_jiffies * 1000 * 100, clk_tck * delta_ms)
  ELSE Real(0)

ProcCpuPercent(delta_jiffies, delta_ms, cores) ==
  IF delta_ms > 0
  THEN Ratio(delta_jiffies * 1000 * 100, clk_tck * delta_ms * cores)
  ELSE Real(0)

\* What read_process_stats hands back: the session as it leaves it (s), the
\* return value (found), the outputs, and for the properties the pid whose
\* comm the call compared equal to proc_name (checked), whether /proc was
\* scanned, the branch that returned, and now_mono_ms.
ProcResult(s, found, cpu, mem, pid, checked, scanned, path, now_mono_ms) ==
  [s |-> s, called |-> path # "none", found |-> found, cpu |-> cpu,
   rss_kb |-> mem.rss_kb, pss_kb |-> mem.pss_kb, uss_kb |-> mem.uss_kb,
   pid |-> pid, checked |-> checked, scanned |-> scanned, path |-> path,
   now |-> now_mono_ms]

NoMemory == [rss_kb |-> 0, pss_kb |-> 0, uss_kb |-> 0]

\* The byte at index i of s, "" for the terminating NUL and beyond.
CharAt(s, i) == IF 1 <= i /\ i <= Len(s) THEN SubSeq(s, i, i) ELSE ""

\* strchr(s, ch): index of the first ch in s, 0 when there is none.
FirstIndex(s, ch) ==
  LET hits == {i \in 1..Len(s) : CharAt(s, i) = ch}
  IN IF hits = {} THEN 0 ELSE CHOOSE i \in hits : \A j \in hits : i <= j

\* The letters of "RSDZTtWXxKPI".
TaskStates == {"R", "S", "D", "Z", "T", "t", "W", "X", "x", "K", "P", "I"}

\* parse_proc_stat_times, lines 168-186: index of the ')' taken as the end
\* of the name, 0 when there is no '(' or no such ')'.
NameEnd_first_paren(line) ==
  LET p == FirstIndex(line, "(")
      ends == {q \in (p + 1)..Len(line) : CharAt(line, q) = ")"}
  IN IF p = 0 \/ ends = {} THEN 0
     ELSE CHOOSE q \in ends : \A r \in ends : q <= r

NameEnd(line) ==
  LET p == FirstIndex(line, "(")
      ends == {q \in (p + 1)..Len(line) :
                 /\ CharAt(line, q) = ")"
                 /\ CharAt(line, q + 1) = " "
                 /\ CharAt(line, q + 2) # ""
                 /\ CharAt(line, q + 3) = " "
                 /\ CharAt(line, q + 2) \in TaskStates}
  IN IF p = 0 \/ ends = {} THEN 0
     ELSE CHOOSE q \in ends : \A r \in ends : q <= r

\* isspace() and isdigit() on one byte.
IsSpace(ch) == ch \in {" ", "\t", "\n"}

IsDigit(ch) == \E d \in 0..9 : ToString(d) = ch

DigitValue(ch) == CHOOSE d \in 0..9 : ToString(d) = ch

\* Index of the first byte from i on that is not white space.
RECURSIVE SkipSpace(_, _)
SkipSpace(s, i) == IF IsSpace(CharAt(s, i)) THEN SkipSpace(s, i + 1) ELSE i

\* The decimal digits from i on: their value, with acc the value of the
\* digits before, and the index after the last of them.
RECURSIVE ScanDigits(_, _, _)
ScanDigits(s, i, acc) ==
  IF IsDigit(CharAt(s, i))
  THEN ScanDigits(s, i + 1, 10 * acc + DigitValue(CharAt(s, i)))
  ELSE [value |-> acc, next |-> i]

\* One %llu conversion of sscanf at index i: white space is skipped, a sign
\* is accepted, at least one digit is required.  A negated value stands
\* for its wrap-around in unsigned long long.
ScanULL(s, i) ==
  LET j == SkipSpace(s, i)
      signed == CharAt(s, j) \in {"-", "+"}
      k == IF signed THEN j + 1 ELSE j
      d == ScanDigits(s, k, 0)
  IN IF ~IsDigit(CharAt(s, k)) THEN [ok |-> FALSE, value |-> 0, next |-> j]
     ELSE [ok |-> TRUE,
           value |-> IF CharAt(s, j) = "-" THEN 0 - d.value ELSE d.value,
           next |-> d.next]

\* The values of up to n consecutive %llu conversions from index i on,
\* appended to got; the scan ends at the first conversion that fails.
RECURSIVE ScanFields(_, _, _, _)
ScanFields(s, i, n, got) ==
  IF n = 0 THEN got
  ELSE LET r == ScanULL(s, i)
       IN IF ~r.ok THEN got
          ELSE ScanFields(s, r.next, n - 1, Append(got, r.value))

\* parse_proc_stat_times(line, &utime, &stime): the return value and the
\* two outputs, which are written only on success.  sscanf reads the state
\* with %c and then twelve numbers: ppid, pgrp, session, tty_nr, tpgid,
\* flags, minflt, cminflt, majflt, cmajflt, utime, stime.
parse_proc_stat_times(line) ==
  LET end == NameEnd(line)
      nums == ScanFields(line, end + 3, 12, <<>>)
  IN IF end = 0 \/ Len(nums) # 12
     THEN [ok |-> FALSE, utime |-> 0, stime |-> 0]
     ELSE [ok |-> TRUE, utime |-> nums[11], stime |-> nums[12]]

\* Outcomes of reading /proc/<pid>/stat: read and parsed, fopen() fails
\* (the process exited after the lookup), fgets() fails, the line does not
\* parse.
StatReads == {"ok", "nofile", "noline", "malformed"}

\* The outcomes the call of a write callback can meet: /proc/<pid>/stat is
\* read only when monitoring is enabled and a pid resolves.
StatOutcomes(s, table) ==
  IF s.proc_enabled /\ ResolvePid(s.proc_name, s, table).proc_pid > 0
  THEN StatReads
  ELSE {"ok"}

\* read_process_stats, lines 389-391, 403-405 and 438-440: the counters
\* read and the snapshot's time become the session's baseline.
TakeBaseline_keeps_counters(s, utime, stime, now_mono_ms) ==
  [s EXCEPT !.prev_proc_sample_mono_ms = now_mono_ms]

TakeBaseline(s, utime, stime, now_mono_ms) ==
  [s EXCEPT !.prev_proc_utime = utime,
            !.prev_proc_stime = stime,
            !.prev_proc_sample_mono_ms = now_mono_ms]

\* read_process_stats(proc_name, pss, now_mono_ms, ...) for the session s,
\* the process table and the outcome io of reading /proc/<pid>/stat.  The
\* files of one call are read from one state of the process table.
read_process_stats(proc_name, s, now_mono_ms, table, io, cores) ==
  LET s1 == ResolvePid(proc_name, s, table)
      pid == s1.proc_pid
      scanned == s.proc_pid = 0 \/ s1 # s
      checked == IF scanned THEN pid
                 ELSE IF pid_matches_comm(pid, proc_name, table) THEN pid
                 ELSE 0
      unset == [ClearBaseline(s1) EXCEPT !.proc_pid = 0]
      m == ProcMemory(pid)
      mem == [rss_kb |-> m.VmRSS, pss_kb |-> m.Pss,
              uss_kb |-> m.Private_Clean + m.Private_Dirty
                           + m.Private_Hugetlb + m.Private_Shmem]
      utime == table[pid].utime
      stime == table[pid].stime
      rebased == TakeBaseline(s1, utime, stime, now_mono_ms)
      prev_tot == s1.prev_proc_utime + s1.prev_proc_stime
      curr_total == utime + stime
  IN IF pid <= 0
     THEN ProcResult(unset, FALSE, Real(0), NoMemory, 0, 0, scanned,
                     "notfound", now_mono_ms)
     ELSE IF io = "nofile"
     THEN ProcResult(unset, FALSE, Real(0), NoMemory, pid, checked, scanned,
                     "nofile", now_mono_ms)
     ELSE IF io = "noline"
     THEN ProcResult(s1, FALSE, Real(0), NoMemory, pid, checked, scanned,
                     "noline", now_mono_ms)
     ELSE IF io = "malformed"
     THEN ProcResult(unset, FALSE, Real(0), NoMemory, pid, checked, scanned,
                     "malformed", now_mono_ms)
     ELSE IF s1.prev_proc_sample_mono_ms = 0
     THEN ProcResult(rebased, TRUE, Real(0), mem, pid, checked, scanned,
                     "first", now_mono_ms)
     ELSE IF NeedsRebaseline(curr_total, prev_tot, now_mono_ms,
                             s1.prev_proc_sample_mono_ms)
     THEN ProcResult(rebased, TRUE, Real(0), mem, pid, checked, scanned,
                     "rebase", now_mono_ms)
     ELSE ProcResult(rebased, TRUE,
                     ProcCpuPercent(curr_total - prev_tot,
                                    now_mono_ms
                                      - s1.prev_proc_sample_mono_ms,
                                    cores),
                     mem, pid, checked, scanned, "delta", now_mono_ms)

(***************************************************************************)
(* ws_server.c: the monitor command and the periodic snapshot of one       *)
(* established connection, with the kernel's clock and process table.      *)
(***************************************************************************)

MAX_WS_MESSAGE_LENGTH == 1024

\* Short names of the processes that run.
RunningNames == {"sh", "vi"}

\* A name of 70 bytes.
Name70 ==
  "p123456789p123456789p123456789p123456789p123456789p123456789p123456789"

\* Values of the "monitor" member a client sends.
MonitorValues ==
  {[is_string |-> TRUE, str |-> n] :
     n \in {"", "sh", "nonexistent_xyz", Name70}}

\* The text of the message {"monitor": value}.
MonitorMessage(monitor) ==
  "{\"monitor\":"
    \o (IF monitor.is_string THEN JsonString(monitor.str) ELSE "5") \o "}"

\* LWS_CALLBACK_RECEIVE, lines 229-262, for a parsed object whose only
\* member is "monitor".
monitor_command_keeps_baseline(s, monitor) ==
  IF ~monitor.is_string THEN s
  ELSE IF monitor.str = ""
  THEN [s EXCEPT !.proc_enabled = FALSE, !.proc_name = "", !.proc_pid = 0]
  ELSE [s EXCEPT
          !.proc_enabled = TRUE,
          !.proc_name = Take(monitor.str, MAX_PROC_NAME_LENGTH - 1),
          !.proc_pid = 0]

monitor_command_keeps_pid(s, monitor) ==
  IF ~monitor.is_string THEN s
  ELSE IF monitor.str = ""
  THEN [ClearBaseline(s) EXCEPT !.proc_enabled = FALSE, !.proc_name = ""]
  ELSE [ClearBaseline(s) EXCEPT
          !.proc_enabled = TRUE,
          !.proc_name = Take(monitor.str, MAX_PROC_NAME_LENGTH - 1)]

monitor_command(s, monitor) ==
  IF ~monitor.is_string THEN s
  ELSE IF monitor.str = ""
  THEN [ClearBaseline(s) EXCEPT !.proc_enabled = FALSE, !.proc_name = "",
                                !.proc_pid = 0]
  ELSE [ClearBaseline(s) EXCEPT
          !.proc_enabled = TRUE,
          !.proc_name = Take(monitor.str, MAX_PROC_NAME_LENGTH - 1),
          !.proc_pid = 0]

\* The shared snapshot app->stats as the sampler left it; of its fields the
\* process monitor reads monotonic_ms.
SnapshotStats(mono) ==
  [cpu_usage |-> cpu_usage, mem_total_kb |-> 981716,
   mem_available_kb |-> 531704, uptime_s |-> Real(4689109),
   load1 |-> Ratio(1, 4), load5 |-> Ratio(1, 2), load15 |-> Real(0),
   timestamp_ms |-> 1766089635, monotonic_ms |-> mono, delta_ms |-> 500]

\* The outputs of a read_process_stats call on the session before, which
\* met the outcome io when it read /proc/<pid>/stat.
Outcome(r, before, io) ==
  IF ~r.called THEN NotCalled
  ELSE [f \in DOMAIN NotCalled |->
          IF f = "before" THEN before ELSE IF f = "io" THEN io ELSE r[f]]

\* Jiffies a process that runs on every core gains in d ms.
BusyJiffies(d) == (cpu_core_count * clk_tck * d) \div 1000

\* proc_init_cpu_count(), called once at startup.
ProcInitCpuCount ==
  /\ ~started
  /\ \E n \in OnlineCpus : cpu_core_count' = proc_init_cpu_count(n)
  /\ started' = TRUE
  /\ UNCHANGED <<clock, procs, monotonic_ms, session, rps, command,
                 snapshot, message, reply>>
  /\ UNCHANGED <<wsVars, jsonVars, cpuVars, statsVars, fsVars, parseVars>>

\* Time passes: the clock advances and each running "sh" either sleeps or
\* runs on every core, a fifth of the time in the kernel; the other
\* processes sleep.
Tick ==
  /\ started
  /\ \E d \in ClockSteps :
       /\ clock + d <= (MaxTicks + 1) * d
       /\ clock' = clock + d
       /\ \E busy \in SUBSET {p \in Pids : procs[p].comm = "sh"} :
            procs' = [p \in Pids |->
                        IF p \in busy
                        THEN [procs[p] EXCEPT
                                !.utime = @ + (4 * BusyJiffies(d)) \div 5,
                                !.stime = @ + BusyJiffies(d) \div 5]
                        ELSE procs[p]]
  /\ rps' = NotCalled
  /\ command' = NoCommand
  /\ snapshot' = NoSnapshot
  /\ message' = NoMessage
  /\ reply' = NoReply
  /\ UNCHANGED <<cpu_core_count, monotonic_ms, session, started>>
  /\ UNCHANGED <<wsVars, jsonVars, cpuVars, statsVars, fsVars, parseVars>>

\* A process starts under a free process id.
Spawn(p, name) ==
  /\ started
  /\ procs[p].comm = ""
  /\ procs' = [procs EXCEPT ![p] = [comm |-> name, utime |-> 0, stime |-> 0]]
  /\ rps' = NotCalled
  /\ command' = NoCommand
  /\ snapshot' = NoSnapshot
  /\ message' = NoMessage
  /\ reply' = NoReply
  /\ UNCHANGED <<clock, cpu_core_count, monotonic_ms, session, started>>
  /\ UNCHANGED <<wsVars, jsonVars, cpuVars, statsVars, fsVars, parseVars>>

\* A process exits; its process id is free again.
Exit(p) ==
  /\ started
  /\ procs[p].comm # ""
  /\ procs' = [procs EXCEPT ![p] = NoProcess]
  /\ rps' = NotCalled
  /\ command' = NoCommand
  /\ snapshot' = NoSnapshot
  /\ message' = NoMessage
  /\ reply' = NoReply
  /\ UNCHANGED <<clock, cpu_core_count, monotonic_ms, session, started>>
  /\ UNCHANGED <<wsVars, jsonVars, cpuVars, statsVars, fsVars, parseVars>>

\* The sampler: app->stats.monotonic_ms = get_time_ms(CLOCK_MONOTONIC).
UpdateSysStats ==
  /\ started
  /\ monotonic_ms' = clock
  /\ rps' = NotCalled
  /\ command' = NoCommand
  /\ snapshot' = NoSnapshot
  /\ message' = NoMessage
  /\ reply' = NoReply
  /\ UNCHANGED <<clock, procs, cpu_core_count, session, started>>
  /\ UNCHANGED <<wsVars, jsonVars, cpuVars, statsVars, fsVars, parseVars>>

\* LWS_CALLBACK_RECEIVE with {"monitor": value}: messages of 128 bytes and
\* more are ignored.
ReceiveMonitor ==
  /\ started
  /\ \E monitor \in MonitorValues :
       LET len == Len(MonitorMessage(monitor))
       IN /\ session' = IF len = 0 \/ len >= 128 THEN session
                        ELSE monitor_command(session, monitor)
          /\ command' = [is_string |-> monitor.is_string,
                         str |-> monitor.str, len |-> len]
  /\ rps' = NotCalled
  /\ snapshot' = NoSnapshot
  /\ message' = NoMessage
  /\ reply' = NoReply
  /\ UNCHANGED <<clock, procs, cpu_core_count, monotonic_ms, started>>
  /\ UNCHANGED <<wsVars, jsonVars, cpuVars, statsVars, fsVars, parseVars>>

\* LWS_CALLBACK_SERVER_WRITEABLE of the connection: build_stats_json calls
\* read_process_stats (r) when monitoring is enabled, and the snapshot it
\* built (b) is sent unless it returned 0 or reported truncation.
WriteOpportunity ==
  /\ started
  /\ \E io \in StatOutcomes(session, procs) :
     \E r \in {IF session.proc_enabled
               THEN read_process_stats(session.proc_name, session,
                                       monotonic_ms, procs, io,
                                       cpu_core_count)
               ELSE ProcResult(session, FALSE, Real(0), NoMemory, 0, 0,
                               FALSE, "none", 0)} :
     \E b \in {build_stats_json(MAX_WS_MESSAGE_LENGTH,
                                SnapshotStats(monotonic_ms),
                                cpu_core_count, 1,
                                MAX_WS_CONNECTED_CLIENTS, r.s, r)} :
       /\ session' = r.s
       /\ rps' = Outcome(r, session, io)
       /\ snapshot' = IF b.len <= 0 \/ b.truncated THEN NoSnapshot
                      ELSE lws_write(b.doc, b.len)
  /\ command' = NoCommand
  /\ message' = NoMessage
  /\ reply' = NoReply
  /\ UNCHANGED <<clock, procs, cpu_core_count, monotonic_ms, started>>
  /\ UNCHANGED <<wsVars, jsonVars, cpuVars, statsVars, fsVars, parseVars>>

\* MAX_LIST_JSON_LENGTH, the size of the per-session list buffer.
MAX_LIST_JSON_LENGTH == 8192

\* What the /proc scan of collect_process_list reads from the process
\* table: one numeric entry per running process, in pid order.
ProcEntries(table) ==
  [p \in 1..Cardinality(Pids) |->
     [numeric |-> table[p].comm # "", readable |-> table[p].comm # "",
      comm |-> table[p].comm]]

\* statvfs() outcomes of the storage paths when a list is requested.
StorageProbes ==
  {[i \in 1..Len(storage_paths) |-> VfsFail],
   [i \in 1..Len(storage_paths) |->
      IF i % 2 = 1 THEN VfsMounted ELSE VfsNoFrsize]}

\* Sixteen blanks.
Blanks == "                "

\* The messages a client sends besides the plain monitor commands: nothing,
\* a monitor command padded with blanks to 128 bytes, text that is no JSON,
\* an array, an object with no known member, the system-identity request,
\* the two list requests, a declined list request with a monitor command,
\* a monitor command whose value is no string, and objects that carry more
\* than one command: a list request with a start command, a storage
\* request with a stop command, and both list requests.
Messages ==
  {Message("", FALSE, FALSE, JsonAbsent, JsonAbsent, JsonAbsent, JsonAbsent),
   Message("{\"monitor\":\"vi\"}" \o Blanks \o Blanks \o Blanks \o Blanks
             \o Blanks \o Blanks \o Blanks,
           TRUE, TRUE, JsonAbsent, JsonAbsent, JsonText("vi"), JsonAbsent),
   Message("{oops", FALSE, FALSE, JsonAbsent, JsonAbsent, JsonAbsent,
           JsonAbsent),
   Message("[1,2]", TRUE, FALSE, JsonAbsent, JsonAbsent, JsonAbsent,
           JsonAbsent),
   Message("{\"foo\":1}", TRUE, TRUE, JsonAbsent, JsonAbsent, JsonAbsent,
           JsonAbsent),
   Message("{\"system_info\":true}", TRUE, TRUE, JsonAbsent, JsonAbsent,
           JsonAbsent, JsonTrue),
   Message("{\"list_processes\":true}", TRUE, TRUE, JsonTrue, JsonAbsent,
           JsonAbsent, JsonAbsent),
   Message("{\"storage\":true}", TRUE, TRUE, JsonAbsent, JsonTrue,
           JsonAbsent, JsonAbsent),
   Message("{\"list_processes\":false,\"monitor\":\"vi\"}", TRUE, TRUE,
           JsonFalse, JsonAbsent, JsonText("vi"), JsonAbsent),
   Message("{\"monitor\":5}", TRUE, TRUE, JsonAbsent, JsonAbsent, JsonNumber,
           JsonAbsent),
   Message("{\"list_processes\":true,\"monitor\":\"vi\"}", TRUE, TRUE,
           JsonTrue, JsonAbsent, JsonText("vi"), JsonAbsent),
   Message("{\"storage\":true,\"monitor\":\"\"}", TRUE, TRUE, JsonAbsent,
           JsonTrue, JsonText(""), JsonAbsent),
   Message("{\"storage\":true,\"list_processes\":true}", TRUE, TRUE,
           JsonTrue, JsonTrue, JsonAbsent, JsonAbsent)}

\* LWS_CALLBACK_RECEIVE, line 163: the lengths the handler drops.
DroppedLength_none(len) == FALSE

DroppedLength(len) == len = 0 \/ len >= 128

\* What a list builder's result makes the handler send.
ListReply(r) == IF r.len > 0 THEN lws_write(r.doc, r.len) ELSE NoReply

\* LWS_CALLBACK_RECEIVE: the session the handler leaves and what it hands
\* to lws_write, for the process table and the statvfs() outcomes it meets.
ws_receive_applies_monitor(s, msg, table, vfs) ==
  LET after == IF msg.monitor.type = "absent" THEN s
               ELSE monitor_command(s, [is_string |->
                                          msg.monitor.type = "string",
                                        str |-> msg.monitor.str])
  IN IF DroppedLength(Len(msg.text)) \/ ~msg.parsed \/ ~msg.is_object
     THEN [session |-> s, reply |-> NoReply]
     ELSE IF msg.storage.type = "true"
     THEN [session |-> after,
           reply |-> ListReply(build_storage_json(vfs,
                                                  MAX_LIST_JSON_LENGTH))]
     ELSE IF msg.list_processes.type = "true"
     THEN [session |-> after,
           reply |-> ListReply(build_process_list_json(
                                 ProcEntries(table), MAX_LIST_JSON_LENGTH))]
     ELSE [session |-> after, reply |-> NoReply]

ws_receive(s, msg, table, vfs) ==
  IF DroppedLength(Len(msg.text)) THEN [session |-> s, reply |-> NoReply]
  ELSE IF ~msg.parsed \/ ~msg.is_object
  THEN [session |-> s, reply |-> NoReply]
  ELSE IF msg.list_processes.type = "true"
  THEN [session |-> s,
        reply |-> ListReply(build_process_list_json(ProcEntries(table),
                                                    MAX_LIST_JSON_LENGTH))]
  ELSE IF msg.storage.type = "true"
  THEN [session |-> s,
        reply |-> ListReply(build_storage_json(vfs, MAX_LIST_JSON_LENGTH))]
  ELSE IF msg.monitor.type = "absent"
  THEN [session |-> s, reply |-> NoReply]
  ELSE [session |->
          monitor_command(s, [is_string |-> msg.monitor.type = "string",
                              str |-> msg.monitor.str]),
        reply |-> NoReply]

\* LWS_CALLBACK_RECEIVE of the established connection.
Receive ==
  /\ started
  /\ \E msg \in Messages, vfs \in StorageProbes :
     \E r \in {ws_receive(session, msg, procs, vfs)} :
       /\ session' = r.session
       /\ reply' = r.reply
       /\ message' = msg
  /\ rps' = NotCalled
  /\ command' = NoCommand
  /\ snapshot' = NoSnapshot
  /\ UNCHANGED <<clock, procs, cpu_core_count, monotonic_ms, started>>
  /\ UNCHANGED <<wsVars, jsonVars, cpuVars, statsVars, fsVars, parseVars>>

NextMon ==
  \/ ProcInitCpuCount
  \/ Tick
  \/ \E p \in Pids, name \in RunningNames : Spawn(p, name)
  \/ \E p \in Pids : Exit(p)
  \/ UpdateSysStats
  \/ ReceiveMonitor
  \/ WriteOpportunity

SpecMon == Init /\ [][NextMon]_vars

\* The connection's callbacks with every kind of received message, while
\* processes come and go and the sampler runs.
NextRecv ==
  \/ ProcInitCpuCount
  \/ \E p \in Pids, name \in RunningNames : Spawn(p, name)
  \/ \E p \in Pids : Exit(p)
  \/ UpdateSysStats
  \/ ReceiveMonitor
  \/ Receive
  \/ WriteOpportunity

SpecRecv == Init /\ [][NextRecv]_vars

(***************************************************************************)
(* The sampler and the write callbacks of two connections.                 *)
(***************************************************************************)

\* A file whose first line starts with the numbers fields.
NumbersFile(fields) == [opened |-> TRUE, got_line |-> TRUE, fields |-> fields]

\* A file fopen() fails on.
MissingFile == [opened |-> FALSE, got_line |-> FALSE, fields |-> <<>>]

\* What /proc/meminfo, /proc/uptime and /proc/loadavg yield in one sampler
\* run: all three as the kernel writes them, all three missing, all three
\* cut short (no MemAvailable line, one number, two numbers), or a
\* MemTotal line without a number.
ProcFiles ==
  {[name |-> "complete",
    meminfo |-> [opened |-> TRUE,
                 lines |-> <<MemLine("MemTotal", TRUE, 981716),
                             MemLine("MemFree", TRUE, 204800),
                             MemLine("MemAvailable", TRUE, 531704),
                             MemLine("Buffers", TRUE, 1024)>>],
    uptime |-> NumbersFile(<<Real(4689109), Real(9000000)>>),
    loadavg |-> NumbersFile(<<Ratio(1, 4), Ratio(1, 2), Real(1)>>)],
   [name |-> "missing",
    meminfo |-> [opened |-> FALSE, lines |-> <<>>],
    uptime |-> MissingFile,
    loadavg |-> MissingFile],
   [name |-> "short",
    meminfo |-> [opened |-> TRUE,
                 lines |-> <<MemLine("MemTotal", TRUE, 981716),
                             MemLine("MemFree", TRUE, 204800)>>],
    uptime |-> NumbersFile(<<Real(4689109)>>),
    loadavg |-> NumbersFile(<<Ratio(1, 4), Ratio(1, 2)>>)],
   [name |-> "garbled",
    meminfo |-> [opened |-> TRUE,
                 lines |-> <<MemLine("MemTotal", FALSE, 0),
                             MemLine("MemAvailable", TRUE, 531704)>>],
    uptime |-> [opened |-> TRUE, got_line |-> FALSE, fields |-> <<>>],
    loadavg |-> NumbersFile(<<Ratio(1, 4), Ratio(1, 2), Real(1)>>)]}

\* The "cpu" lines a sampler run reads: one of two readings.
SampledStatLines ==
  {l \in StatLines :
     /\ l.parsed
     /\ l.nice + l.system + l.irq + l.softirq + l.steal = 0
     /\ l.iowait = 0
     /\ <<l.user, l.idle>> \in {<<1, 1>>, <<2, 1>>}}

\* get_time_ms(CLOCK_MONOTONIC): 0 when clock_gettime() fails, else the
\* reading, which the model lets be any of three values.
MonoReadings == {0, 500, 1000}

\* get_time_ms(CLOCK_REALTIME), in seconds to stay within TLC's integers.
RealtimeReadings == {1766089635}

\* One run of the sampler callback.  Every connection's record of what it
\* sent starts over.
StatsTick ==
  /\ started
  /\ \E files \in ProcFiles, line \in SampledStatLines,
        now \in MonoReadings, wall \in RealtimeReadings :
       LET r == update_sys_stats(
                  [prev_idle |-> prev_idle, prev_total |-> prev_total,
                   initialized |-> initialized, cpu_usage |-> cpu_usage],
                  sys_stats, prev_mono_ms,
                  [stat |-> line, meminfo |-> files.meminfo,
                   uptime |-> files.uptime, loadavg |-> files.loadavg,
                   realtime_ms |-> wall, now_mono_ms |-> now])
       IN /\ stat_line' = line
          /\ prev_idle' = r.cpu.prev_idle
          /\ prev_total' = r.cpu.prev_total
          /\ initialized' = r.cpu.initialized
          /\ cpu_usage' = r.cpu.cpu_usage
          /\ sys_stats' = r.stats
          /\ monotonic_ms' = r.monotonic_ms
          /\ prev_mono_ms' = r.prev_mono_ms
          /\ sample' = [taken |-> TRUE, first |-> ~sample.taken,
                        now_mono_ms |-> now,
                        before_mono_ms |-> monotonic_ms,
                        before_mem_total_kb |-> sys_stats.mem_total_kb,
                        files |-> files.name]
  /\ sent' = [c \in Writers |-> [sent[c] EXCEPT !.doc = NoSnapshot]]
  /\ UNCHANGED <<clock, procs, cpu_core_count, session, rps, command,
                 snapshot, started, message, reply>>
  /\ UNCHANGED <<wsVars, jsonVars, fsVars, parseVars>>

\* The connections that ask for a process to be monitored.
MonitorClients == {2}

\* The user pointer of a callback on connection c: the transport gives
\* every wsi a per_session_data of its own (per_session_data_size in the
\* protocol table).
lws_wsi_user_shared(c) == CHOOSE w \in Writers : \A v \in Writers : w <= v

lws_wsi_user(c) == c

\* LWS_CALLBACK_RECEIVE on connection c with {"monitor":"nonexistent_xyz"}.
MonitorRequest(c) ==
  /\ started
  /\ ~sent[c].pss.proc_enabled
  /\ sent' = [sent EXCEPT
                ![c].pss = monitor_command(@, [is_string |-> TRUE,
                                               str |-> "nonexistent_xyz"])]
  /\ UNCHANGED <<sys_stats, prev_mono_ms, sample>>
  /\ UNCHANGED <<wsVars, jsonVars, cpuVars, monVars, fsVars, parseVars>>

\* &ws.app->stats as the write callback of connection c reads it: the one
\* snapshot of the application state.
app_stats_per_connection(c) ==
  [f \in DOMAIN ZeroStats \cup {"cpu_usage", "monotonic_ms"} |->
     IF f = "cpu_usage" THEN cpu_usage
     ELSE IF f = "monotonic_ms" THEN monotonic_ms + c
     ELSE sys_stats[f]]

app_stats(c) ==
  [f \in DOMAIN ZeroStats \cup {"cpu_usage", "monotonic_ms"} |->
     IF f = "cpu_usage" THEN cpu_usage
     ELSE IF f = "monotonic_ms" THEN monotonic_ms
     ELSE sys_stats[f]]

\* LWS_CALLBACK_SERVER_WRITEABLE on connection c while two connections are
\* established.
SnapshotWrite(c) ==
  /\ started
  /\ \E pss \in {sent[lws_wsi_user(c)].pss} :
     \E io \in StatOutcomes(pss, procs) :
     \E r \in {IF pss.proc_enabled
               THEN read_process_stats(pss.proc_name, pss,
                                       app_stats(c).monotonic_ms, procs, io,
                                       cpu_core_count)
               ELSE ProcResult(pss, FALSE, Real(0), NoMemory, 0, 0,
                               FALSE, "none", 0)} :
     \E b \in {build_stats_json(MAX_WS_MESSAGE_LENGTH, app_stats(c),
                                cpu_core_count, Cardinality(Writers),
                                MAX_WS_CONNECTED_CLIENTS, r.s, r)} :
       sent' = [sent EXCEPT
                  ![lws_wsi_user(c)] =
                     [pss |-> r.s,
                      doc |-> IF b.len <= 0 \/ b.truncated
                              THEN NoSnapshot
                              ELSE lws_write(b.doc, b.len)]]
  /\ UNCHANGED <<sys_stats, prev_mono_ms, sample>>
  /\ UNCHANGED <<wsVars, jsonVars, cpuVars, monVars, fsVars, parseVars>>

NextStats ==
  \/ ProcInitCpuCount
  \/ StatsTick
  \/ \E c \in MonitorClients : MonitorRequest(c)
  \/ \E c \in Writers : SnapshotWrite(c)

SpecStats == Init /\ [][NextStats]_vars

(***************************************************************************)
(* The sampler under the stats timer: connections come and go, the timer   *)
(* is armed by the first and removed with the last, and the sampler runs   *)
(* only while it is armed.                                                 *)
(***************************************************************************)

\* The connection attempts followed next to the sampler.
RestartConns == 1..MAX_WS_CONNECTED_CLIENTS

\* stats_timer_cb(), ws_server.c: the GLib source fires only while it is
\* armed and runs the sampler.
TimerTick ==
  /\ stats_timer_id # 0
  /\ StatsTick

NextRestart ==
  \/ ws_server_start
  \/ ProcInitCpuCount
  \/ TimerTick
  \/ \E c \in RestartConns : FilterProtocolConnection(c)
  \/ \E c \in RestartConns : Established(c)
  \/ \E c \in RestartConns : Closed(c)
  \/ \E c \in RestartConns : WsiDestroy(c)

SpecRestart == Init /\ [][NextRestart]_vars

(***************************************************************************)
(* Two connections, each with its own monitor: commands and write          *)
(* callbacks on either of them while processes start and the sampler runs. *)
(***************************************************************************)

\* The commands the two clients send: start monitoring "sh", stop, and a
\* list request that carries a start command.
SessionCommands ==
  {m \in Messages : m.list_processes.type = "true"
                      /\ m.monitor.type = "string"}
  \cup {Message("{\"monitor\":\"sh\"}", TRUE, TRUE, JsonAbsent, JsonAbsent,
                JsonText("sh"), JsonAbsent),
        Message("{\"monitor\":\"\"}", TRUE, TRUE, JsonAbsent, JsonAbsent,
                JsonText(""), JsonAbsent)}

\* LWS_CALLBACK_RECEIVE on connection c; no storage request is among the
\* commands, so statvfs() is not called.
SessionReceive(c) ==
  /\ started
  /\ \E msg \in SessionCommands :
     \E r \in {ws_receive(sent[lws_wsi_user(c)].pss, msg, procs,
                          [i \in 1..Len(storage_paths) |-> VfsFail])} :
       /\ sent' = [sent EXCEPT ![lws_wsi_user(c)].pss = r.session]
       /\ reply' = r.reply
       /\ message' = msg
  /\ rps' = NotCalled
  /\ command' = NoCommand
  /\ snapshot' = NoSnapshot
  /\ UNCHANGED <<clock, procs, cpu_core_count, monotonic_ms, session,
                 started>>
  /\ UNCHANGED <<sys_stats, prev_mono_ms, sample>>
  /\ UNCHANGED <<wsVars, jsonVars, cpuVars, fsVars, parseVars>>

NextSessions ==
  \/ ProcInitCpuCount
  \/ \E p \in Pids, name \in RunningNames : Spawn(p, name)
  \/ UpdateSysStats
  \/ \E c \in Writers : SessionReceive(c)
  \/ \E c \in Writers : SnapshotWrite(c)

SpecSessions == Init /\ [][NextSessions]_vars

(***************************************************************************)
(* storage.c: the filesystem type of a path.                               *)
(***************************************************************************)

\* One entry of /proc/self/mounts as fscanf reads it.
MountEntry(mount_point, type) ==
  [scanned |-> TRUE, mount_point |-> mount_point, type |-> type]

\* The entries a mount table is made of: the root, a mount above and one
\* at /var/lib, a mount whose name is a prefix of "/var" but not of the
\* path, and a line fscanf does not read three fields from.
MountEntries ==
  {MountEntry("/", "ext4"), MountEntry("/var", "tmpfs"),
   MountEntry("/var/lib", "overlay"), MountEntry("/va", "vfat"),
   [scanned |-> FALSE, mount_point |-> "", type |-> ""]}

\* Longest mount table read.
MaxMounts == 3

MountTables == UNION {[1..n -> MountEntries] : n \in 0..MaxMounts}

\* The paths asked about: two of storage_paths and a directory below one.
QueriedPaths == {"/", "/var/lib", "/var/lib/docker"}

\* sizeof(out->fs_type), storage.h: char fs_type[32].
FsTypeLength == 32

\* One call of get_fs_type_for_path by read_storage_for_path.
GetFsType ==
  /\ \E path \in QueriedPaths, opened \in BOOLEAN, mounts \in MountTables :
       LET r == get_fs_type_for_path(path, opened,
                                     IF opened THEN mounts ELSE <<>>,
                                     FsTypeLength)
       IN fs_query' = [called |-> TRUE, path |-> path, opened |-> opened,
                       mounts |-> IF opened THEN mounts ELSE <<>>,
                       found |-> r.found, fs_type |-> r.fs_type]
  /\ UNCHANGED <<wsVars, jsonVars, cpuVars, monVars, statsVars, parseVars>>

NextFs == GetFsType

SpecFs == Init /\ [][NextFs]_vars

(***************************************************************************)
(* proc.c: the times of a /proc/<pid>/stat line.                           *)
(***************************************************************************)

\* A numeric field of a stat line and a field that is not a number.
Num(n) == [numeric |-> TRUE, value |-> n, text |-> ToString(n)]

Junk(text) == [numeric |-> FALSE, value |-> 0, text |-> text]

\* The fields joined by single blanks, each preceded by one.
RECURSIVE FieldsText(_)
FieldsText(fields) ==
  IF fields = <<>> THEN ""
  ELSE " " \o Head(fields).text \o FieldsText(Tail(fields))

\* The line the kernel writes for a process: pid, name in parentheses,
\* state, and the fields that follow the state.
StatText(name, state, fields) ==
  "42 (" \o name \o ") " \o state \o FieldsText(fields) \o "\n"

\* Process names: plain, with a blank, with ')', with ") " before a letter
\* that is no state, with parentheses of their own, and one that holds a
\* ") S " sequence itself.
StatNames == {"sh", "a b", "a)b", "x) y", "(sd-pam)", "a) S b"}

\* State fields: two task states and a letter that is none.
StatStates == {"S", "R", "Q"}

\* Number of fields after the state in the longest line made.
MaxStatFields == 14

\* The fields after the state: ppid ... cmajflt (tpgid -1, as for a process
\* without a terminal), utime, stime and two more; cut short after n
\* fields; or with a third field that is no number.
StatFieldLists ==
  LET full(u, t) == [i \in 1..MaxStatFields |->
                      IF i = 5 THEN Num(-1)
                      ELSE IF i = 6 THEN Num(4194560)
                      ELSE IF i = 11 THEN Num(u)
                      ELSE IF i = 12 THEN Num(t)
                      ELSE Num(i)]
  IN {SubSeq(full(u, t), 1, n) :
        u \in {7, 123}, t \in {5, 40}, n \in 10..MaxStatFields}
     \cup {[full(u, 5) EXCEPT ![3] = Junk("x")] : u \in {7, 123}}

\* read_process_stats, fgets(line, sizeof(line), f): the stat line of the
\* process is read; the parse follows before another line is read.
FgetsStatLine ==
  /\ stat_parse.called \/ stat_parse.line = ""
  /\ \E name \in StatNames, state \in StatStates, fields \in StatFieldLists :
       stat_parse' = [called |-> FALSE, line |-> StatText(name, state, fields),
                      name |-> name, state |-> state, fields |-> fields,
                      ok |-> FALSE, utime |-> 0, stime |-> 0]
  /\ UNCHANGED <<wsVars, jsonVars, cpuVars, monVars, statsVars, fsVars>>

\* The call of parse_proc_stat_times on the line read.
ParseProcStatTimes ==
  /\ ~stat_parse.called
  /\ stat_parse.line # ""
  /\ \E r \in {parse_proc_stat_times(stat_parse.line)} :
       stat_parse' = [stat_parse EXCEPT !.called = TRUE, !.ok = r.ok,
                                        !.utime = r.utime,
                                        !.stime = r.stime]
  /\ UNCHANGED <<wsVars, jsonVars, cpuVars, monVars, statsVars, fsVars>>

NextParse == FgetsStatLine \/ ParseProcStatTimes

SpecParse == Init /\ [][NextParse]_vars

(***************************************************************************)
(* The process monitor: properties.  rps.called holds in the state a write *)
(* callback with monitoring enabled leaves; the process table and the      *)
(* shared snapshot are then the ones the call read.                        *)
(***************************************************************************)

\* The running processes that carry the monitored name.
Running == {p \in Pids : procs[p].comm = session.proc_name}

\* The first of them in /proc, 0 when there is none.
FirstRunning ==
  IF Running = {} THEN 0 ELSE CHOOSE p \in Running : \A q \in Running : p <= q

\* utime + stime of process p as /proc shows them.
CpuTotal(p) == procs[p].utime + procs[p].stime

\* The session's baseline is the process's current counters, taken at the
\* shared snapshot's time.
BaselineIsCurrent(p) ==
  /\ session.prev_proc_utime = procs[p].utime
  /\ session.prev_proc_stime = procs[p].stime
  /\ session.prev_proc_sample_mono_ms = monotonic_ms

BaselineIsUnset ==
  /\ session.prev_proc_utime = 0
  /\ session.prev_proc_stime = 0
  /\ session.prev_proc_sample_mono_ms = 0

\* C13: on every write opportunity of a connection with monitoring enabled
\* the process CPU% reported, after the division by the core count, lies in
\* [0, 100], the elapsed time being the difference of the shared snapshot's
\* monotonic_ms values.
C13_ProcCpuInRange ==
  (rps.called /\ rps.found) =>
    /\ rps.cpu.num >= 0
    /\ rps.cpu.num <= 100 * rps.cpu.den

C15_RebaselineReportsZero ==
  (rps.called /\ rps.io = "ok" /\ Running # {}) =>
    LET pid == session.proc_pid
        b == rps.before
        unset == b.prev_proc_sample_mono_ms = 0 \/ b.proc_pid # pid
        m == ProcMemory(pid)
    IN /\ pid \in Running
       /\ rps.found
       /\ (\/ unset
           \/ CpuTotal(pid) < b.prev_proc_utime + b.prev_proc_stime
           \/ monotonic_ms <= b.prev_proc_sample_mono_ms) =>
            /\ rps.cpu = Real(0)
            /\ BaselineIsCurrent(pid)
            /\ rps.rss_kb = m.VmRSS
            /\ rps.pss_kb = m.Pss
            /\ rps.uss_kb = m.Private_Clean + m.Private_Dirty
                              + m.Private_Hugetlb + m.Private_Shmem

\* C15 witness: the cached pid still carries the name, a baseline is stored
\* and the clock advanced, but the counters are below the baseline (the
\* process was replaced under the same pid).
C15_Witness ==
  /\ rps.called
  /\ rps.found
  /\ rps.before.proc_pid = rps.pid
  /\ rps.before.prev_proc_sample_mono_ms # 0
  /\ monotonic_ms > rps.before.prev_proc_sample_mono_ms
  /\ CpuTotal(rps.pid)
       < rps.before.prev_proc_utime + rps.before.prev_proc_stime
  /\ rps.cpu = Real(0)

\* C16: a pid returned by read_process_stats was confirmed to carry the
\* requested name within the same call, by the /proc scan that found it or
\* by the re-validation of the cached pid.
C16_PidConfirmedInCall ==
  rps.called =>
    /\ rps.pid > 0 => procs[rps.pid].comm = session.proc_name
    /\ rps.found =>
         /\ rps.pid > 0
         /\ rps.pid = session.proc_pid
         /\ \/ rps.scanned
            \/ rps.before.proc_pid = rps.pid /\ rps.checked = rps.pid

\* C16 witness: a cached pid is returned after its re-validation, no scan.
C16_Witness ==
  /\ rps.called
  /\ rps.found
  /\ rps.before.proc_pid = rps.pid
  /\ rps.checked = rps.pid
  /\ ~rps.scanned

\* C17: when the cached pid no longer carries the requested name the call
\* clears pid and baseline and scans /proc again, and after any change of
\* the cached pid the cpu reported next is 0, never a delta against the
\* previous process's counters.
C17_PidChangeClearsBaseline ==
  /\ (/\ rps.called
      /\ rps.before.proc_pid # 0
      /\ procs[rps.before.proc_pid].comm # session.proc_name) =>
       /\ rps.scanned
       /\ rps.pid = FirstRunning
       /\ session.proc_pid \in {0, FirstRunning}
       /\ IF rps.found
          THEN rps.cpu = Real(0) /\ BaselineIsCurrent(rps.pid)
          ELSE BaselineIsUnset
  /\ (rps.called /\ rps.found /\ rps.before.proc_pid # session.proc_pid) =>
       /\ rps.cpu = Real(0)
       /\ BaselineIsCurrent(session.proc_pid)
  /\ session.proc_pid = 0 => BaselineIsUnset

\* C17 witness: the cached pid lost the name, another process carries it and
\* has counters above the stored baseline, which is not used.
C17_Witness ==
  /\ rps.called
  /\ rps.found
  /\ rps.before.proc_pid \notin {0, rps.pid}
  /\ rps.before.prev_proc_sample_mono_ms # 0
  /\ monotonic_ms > rps.before.prev_proc_sample_mono_ms
  /\ CpuTotal(rps.pid)
       > rps.before.prev_proc_utime + rps.before.prev_proc_stime
  /\ rps.cpu = Real(0)

\* The keys of the top-level object of a JSON text, in order: one pass over
\* the text that tracks nesting and strings and collects every string that
\* closes at depth 1 right before a colon.  KeyStep consumes byte i.
KeyStep(s, i, st) ==
  LET c == SubSeq(s, i, i)
  IN IF st.inStr
     THEN IF st.esc THEN [st EXCEPT !.esc = FALSE]
          ELSE IF c = "\\" THEN [st EXCEPT !.esc = TRUE]
          ELSE IF c = "\""
               THEN [st EXCEPT !.inStr = FALSE,
                               !.acc = IF st.depth = 1 /\ SubSeq(s, i + 1, i + 1) = ":"
                                       THEN Append(@, SubSeq(s, st.start + 1, i - 1))
                                       ELSE @]
          ELSE st
     ELSE IF c = "\"" THEN [st EXCEPT !.inStr = TRUE, !.start = i]
          ELSE IF c \in {"{", "["} THEN [st EXCEPT !.depth = @ + 1]
          ELSE IF c \in {"}", "]"} THEN [st EXCEPT !.depth = @ - 1]
          ELSE st

\* The scan of bytes i..last, and the scan of the whole text in blocks.
RECURSIVE KeyScan(_, _, _, _)
KeyScan(s, i, last, st) ==
  IF i > last THEN st ELSE KeyScan(s, i + 1, last, KeyStep(s, i, st))

RECURSIVE KeyBlocks(_, _, _)
KeyBlocks(s, i, st) ==
  IF i > Len(s) THEN st
  ELSE LET last == IF i + 23 > Len(s) THEN Len(s) ELSE i + 23
           next == KeyScan(s, i, last, st)
       IN IF next.depth < 0 THEN next ELSE KeyBlocks(s, last + 1, next)

TopKeys(s) ==
  KeyBlocks(s, 1, [depth |-> 0, inStr |-> FALSE, esc |-> FALSE, start |-> 0,
                   acc |-> <<>>]).acc

\* The top-level keys of the snapshot sent by the last write callback.
SentKeys == TopKeys(snapshot.bytes)

\* The system fields of a periodic snapshot.
SystemKeys ==
  <<"ts", "mono_ms", "delta_ms", "cpu", "cpu_cores", "mem_total_kb",
    "mem_available_kb", "uptime_s", "load1", "load5", "load15", "clients">>

HasKey(keys, k) == \E n \in 1..Len(keys) : keys[n] = k

\* The text of the "error" member for a name that needs no escaping.
ExpectedErrorMember(name) ==
  "\"error\":{\"type\":\"process_not_found\",\"message\":\"Process '"
    \o name \o "' not found\"}"

\* C18: a write opportunity of a connection that monitors a name no running
\* process has sends a snapshot with all system fields, no "proc" key and
\* the member "error":{"type":"process_not_found","message":"Process
\* '<name>' not found"}, and leaves the cached pid and the baseline at 0.
C18_NotFoundSnapshot ==
  (rps.called /\ Running = {}) =>
    LET doc == snapshot.bytes
        member == ExpectedErrorMember(session.proc_name)
    IN /\ snapshot.sent
       /\ snapshot.len = Len(doc)
       /\ SentKeys = Append(SystemKeys, "error")
       /\ Len(doc) > Len(member)
       /\ SubSeq(doc, Len(doc) - Len(member), Len(doc)) = member \o "}"
       /\ ~rps.found
       /\ session.proc_pid = 0
       /\ BaselineIsUnset

\* C18 witness: the snapshot sent for "nonexistent_xyz" while some other
\* process is running.
C18_Witness ==
  /\ rps.called
  /\ session.proc_name = "nonexistent_xyz"
  /\ snapshot.sent
  /\ HasKey(SentKeys, "error")
  /\ \E p \in Pids : procs[p].comm # ""

\* C19: a snapshot sent has a "proc" member exactly when monitoring is
\* enabled and read_process_stats found the process, an "error" member
\* exactly when monitoring is enabled and it did not, never both, and
\* neither when monitoring is disabled.
C19_ProcXorError ==
  snapshot.sent =>
    LET keys == SentKeys
    IN /\ HasKey(keys, "proc") <=> (session.proc_enabled /\ rps.found)
       /\ HasKey(keys, "error") <=> (session.proc_enabled /\ ~rps.found)
       /\ ~(HasKey(keys, "proc") /\ HasKey(keys, "error"))
       /\ ~session.proc_enabled => keys = SystemKeys

\* C19 witness: a snapshot with a "proc" member whose name is the monitored
\* name.
C19_Witness ==
  /\ snapshot.sent
  /\ session.proc_enabled
  /\ rps.found
  /\ SentKeys = Append(SystemKeys, "proc")

\* The session a monitor command with a non-empty name must leave, and the
\* one the empty name must leave.
Monitoring(name) ==
  [proc_enabled |-> TRUE, proc_name |-> name, prev_proc_utime |-> 0,
   prev_proc_stime |-> 0, prev_proc_sample_mono_ms |-> 0, proc_pid |-> 0]

\* C20 as stated: a received {"monitor": s} with a non-empty string s sets
\* the monitored name to s, enables monitoring and zeroes the cached pid and
\* the baseline; with s = "" it disables monitoring, clears the name and
\* zeroes the same fields.
C20_MonitorSetsName ==
  command.is_string =>
    IF command.str = "" THEN session = NewSession
    ELSE session = Monitoring(command.str)

\* C20, amended: a received {"monitor": s} of fewer than 128 bytes with a
\* non-empty string s sets the monitored name to the first
\* MAX_PROC_NAME_LENGTH - 1 bytes of s (s itself when it is shorter than
\* MAX_PROC_NAME_LENGTH), enables monitoring and zeroes the cached pid and
\* the baseline; with s = "" it disables monitoring, clears the name and
\* zeroes the same fields.  The write callback that meets the zeroed fields
\* reports proc cpu 0 or process_not_found.
C20_MonitorSetsTruncatedName ==
  /\ (command.is_string /\ command.len < 128) =>
       IF command.str = "" THEN session = NewSession
       ELSE /\ session = Monitoring(Take(command.str, MAX_PROC_NAME_LENGTH - 1))
            /\ Len(command.str) < MAX_PROC_NAME_LENGTH
                 => session.proc_name = command.str
  /\ (/\ rps.called
      /\ rps.before.proc_pid = 0
      /\ rps.before.prev_proc_sample_mono_ms = 0) =>
       IF rps.found THEN rps.cpu = Real(0) /\ HasKey(SentKeys, "proc")
       ELSE HasKey(SentKeys, "error")

\* C20 witness: a name of 70 bytes was received in a message of fewer than
\* 128 bytes; the session holds its first 63 bytes.
C20_Witness ==
  /\ command.is_string
  /\ Len(command.str) = 70
  /\ command.len < 128
  /\ Len(session.proc_name) = 63
  /\ session.proc_enabled
  /\ session.proc_pid = 0

(***************************************************************************)
(* The RECEIVE callback: properties.  message is set in the state the      *)
(* callback leaves.                                                        *)
(***************************************************************************)

\* The message was delivered to the parser and is an object.
ParsedObject(m) ==
  /\ m.received
  /\ Len(m.text) > 0
  /\ Len(m.text) < 128
  /\ m.parsed
  /\ m.is_object

\* C21: a received {"system_info": true} triggers exactly one one-shot reply
\* of shape {"system": {...}} on the connection.
C21_SystemInfoReply ==
  (ParsedObject(message) /\ message.system_info.type = "true") =>
    /\ reply.sent
    /\ TopKeys(reply.bytes) = <<"system">>

\* The messages that must be ignored: empty, 128 bytes or longer, not JSON,
\* not an object, or an object with none of the members list_processes,
\* storage, monitor and system_info.
Ignorable(m) ==
  \/ Len(m.text) = 0
  \/ Len(m.text) >= 128
  \/ ~m.parsed
  \/ ~m.is_object
  \/ /\ m.list_processes.type = "absent"
     /\ m.storage.type = "absent"
     /\ m.monitor.type = "absent"
     /\ m.system_info.type = "absent"

\* C22: a received message that is empty, 128 bytes or longer, not valid
\* JSON, not an object, or an object with none of the recognized members
\* produces no reply and leaves the connection's monitor state, the
\* accounting counters and the shared snapshot unchanged.
C22_IgnoredMessageNoEffect ==
  [][(message'.received /\ Ignorable(message')) =>
       /\ reply' = NoReply
       /\ snapshot' = NoSnapshot
       /\ session' = session
       /\ UNCHANGED <<ws_pending_client_count, ws_connected_client_count>>
       /\ UNCHANGED <<monotonic_ms, cpu_usage>>]_vars

\* C22 witness: a monitor command padded to 128 bytes was received while
\* another process is monitored under a cached pid, which all stays.
C22_Witness ==
  /\ Len(message.text) >= 128
  /\ message.monitor = JsonText("vi")
  /\ reply = NoReply
  /\ session.proc_name = "sh"
  /\ session.proc_pid # 0
  /\ session.prev_proc_sample_mono_ms # 0


(***************************************************************************)
(* The sampler: properties.  sample describes the last sampler run,        *)
(* sent[c] what connection c sent since.                                   *)
(***************************************************************************)

\* Index of the first occurrence of key in s, 0 when there is none.
KeyAt(s, key) ==
  LET hits == {i \in 1..(Len(s) - Len(key) + 1) :
                 SubSeq(s, i, i + Len(key) - 1) = key}
  IN IF hits = {} THEN 0 ELSE CHOOSE i \in hits : \A j \in hits : i <= j

\* The members of a stats document that come before "clients": ts, mono_ms,
\* delta_ms, cpu, cpu_cores, memory, uptime and load.
SystemPart(bytes) == Take(bytes, KeyAt(bytes, "\"clients\"") - 1)

\* C24: a step in which a connection callback ran (a frame was sent or a
\* session changed) leaves the shared snapshot as it was, and all frames
\* sent since the last sampler run carry the same system fields.
C24_SnapshotSharedBetweenTicks ==
  /\ [](\A c, d \in Writers :
          sent[c].doc.sent /\ sent[d].doc.sent
            => /\ KeyAt(sent[c].doc.bytes, "\"clients\"") > 1
               /\ SystemPart(sent[c].doc.bytes)
                    = SystemPart(sent[d].doc.bytes))
  /\ [][(\E c \in Writers :
           \/ sent'[c].doc.sent /\ sent'[c].doc # sent[c].doc
           \/ sent'[c].pss # sent[c].pss)
          => UNCHANGED <<sys_stats, monotonic_ms, cpu_usage, prev_mono_ms>>]_vars

\* Both connections sent a frame after a sampler run that stored a non-zero
\* monotonic time, and the two frames differ.
C24_Witness ==
  /\ sample.taken
  /\ monotonic_ms # 0
  /\ \A c \in Writers : sent[c].doc.sent
  /\ sent[1].doc.bytes # sent[2].doc.bytes

\* C25: the snapshot's monotonic_ms never decreases.
C25_MonotonicNonDecreasing == [][monotonic_ms' >= monotonic_ms]_vars

\* C26: after a sampler run delta_ms is the reading minus the monotonic time
\* the previous run stored when there was a previous run and the reading is
\* not lower, and 0 otherwise.
C26_DeltaFromPreviousTick ==
  sample.taken
    => sys_stats.delta_ms
         = IF ~sample.first /\ sample.now_mono_ms >= sample.before_mono_ms
           THEN sample.now_mono_ms - sample.before_mono_ms
           ELSE 0

\* The files the last sampler run read.
SampledFiles == CHOOSE f \in ProcFiles : f.name = sample.files

\* The number on the first line of meminfo with the given label, 0 when the
\* file is missing or has no such line.
MemValue(meminfo, label) ==
  LET hits == {i \in 1..Len(meminfo.lines) :
                 ScansAs(meminfo.lines[i], label)}
  IN IF ~meminfo.opened \/ hits = {} THEN 0
     ELSE meminfo.lines[CHOOSE i \in hits : \A j \in hits : i <= j].value

\* C28: after a sampler run each of the six fields holds what that run
\* parsed, and 0 when its file was missing or did not parse.
C28_FieldsClearedThenParsed ==
  sample.taken
    => LET f == SampledFiles
           up_ok == Scanned(f.uptime, 2)
           load_ok == Scanned(f.loadavg, 3)
       IN /\ sys_stats.mem_total_kb = MemValue(f.meminfo, "MemTotal")
          /\ sys_stats.mem_available_kb = MemValue(f.meminfo, "MemAvailable")
          /\ sys_stats.uptime_s = IF up_ok THEN f.uptime.fields[1] ELSE Real(0)
          /\ sys_stats.load1 = IF load_ok THEN f.loadavg.fields[1] ELSE Real(0)
          /\ sys_stats.load5 = IF load_ok THEN f.loadavg.fields[2] ELSE Real(0)
          /\ sys_stats.load15 = IF load_ok THEN f.loadavg.fields[3] ELSE Real(0)

\* A sampler run found every file missing after a run that had set the
\* fields.
C28_Witness ==
  /\ sample.taken
  /\ sample.files = "missing"
  /\ sample.before_mem_total_kb # 0
  /\ sys_stats.mem_total_kb = 0
  /\ sys_stats.uptime_s = Real(0)


(***************************************************************************)
(* The filesystem type of a path: properties.                              *)
(***************************************************************************)

\* mount_point is a path prefix of path: the path is the mount point, or
\* continues below it.
PathPrefix(mount_point, path) ==
  \/ mount_point = path
  \/ /\ Len(path) > Len(mount_point)
     /\ SubSeq(path, 1, Len(mount_point)) = mount_point
     /\ \/ SubSeq(path, Len(mount_point) + 1, Len(mount_point) + 1) = "/"
        \/ SubSeq(mount_point, Len(mount_point), Len(mount_point)) = "/"

\* The entries of the last call's mount table that fscanf read.
ReadEntries ==
  LET m == fs_query.mounts
      stops == {i \in 1..Len(m) : ~m[i].scanned}
      last == IF stops = {} THEN Len(m)
              ELSE (CHOOSE i \in stops : \A j \in stops : i <= j) - 1
  IN {m[i] : i \in 1..last}

\* C27: a call that read the mount table reports not-found only when no
\* mount point is a path prefix of the path, and otherwise returns the type
\* of an entry with the longest such mount point.
C27_LongestPrefixMount ==
  fs_query.called /\ fs_query.opened
    => LET covering == {e \in ReadEntries :
                          PathPrefix(e.mount_point, fs_query.path)}
       IN /\ fs_query.found <=> covering # {}
          /\ fs_query.found
               => \E e \in covering :
                    /\ \A o \in covering :
                         Len(o.mount_point) <= Len(e.mount_point)
                    /\ fs_query.fs_type = e.type


(***************************************************************************)
(* The "proc" object of a snapshot: properties.                            *)
(***************************************************************************)

\* The value of the "proc" member, the last member of the document.
ProcText(bytes) ==
  SubSeq(bytes, KeyAt(bytes, "\"proc\":") + Len("\"proc\":"), Len(bytes) - 1)

\* The keys of the "proc" object of the snapshot sent in the last step.
ProcKeys == TopKeys(ProcText(snapshot.bytes))

C30_WriteOpportunitiesRecur ==
  /\ [](\A c \in Conns : wsi[c] = "established" => send_timer[c])
  /\ [][\A c \in Conns :
          /\ wsi[c] # "established" /\ wsi'[c] = "established"
               => write_requested'[c] /\ send_timer'[c]
          /\ \/ write_requested'[c] # write_requested[c]
             \/ send_timer'[c] # send_timer[c]
               => \/ Established(c)
                  \/ Timer(c)
                  \/ WriteableCallback(c)
                  \/ Closed(c)]_vars
  /\ \A c \in Conns :
       (wsi[c] = "established" /\ ~write_requested[c])
         ~> (write_requested[c] \/ wsi[c] # "established")
  /\ \A c \in Conns :
       (wsi[c] = "established" /\ write_requested[c])
         ~> (~write_requested[c])


\* Two connections are established after a sampler run: the TIMER callback
\* of the first has run and its write request was served, the second still
\* waits for the write opportunity ESTABLISHED asked for.
C30_Witness ==
  /\ last_tick_active >= 1
  /\ \E c, d \in SendConns :
       /\ c # d
       /\ wsi[c] = "established" /\ wsi[d] = "established"
       /\ timer_ran[c] /\ send_timer[c] /\ ~write_requested[c]
       /\ ~timer_ran[d] /\ send_timer[d] /\ write_requested[d]


(***************************************************************************)
(* The times of a /proc/<pid>/stat line: properties.                       *)
(***************************************************************************)

\* The name holds a ')' that is followed by a blank, a task state and a
\* blank.
HoldsTerminator(name) ==
  \E q \in 1..Len(name) :
    /\ CharAt(name, q) = ")"
    /\ CharAt(name, q + 1) = " "
    /\ CharAt(name, q + 2) \in TaskStates
    /\ CharAt(name, q + 3) = " "

\* The first n fields of the line are numbers.
NumericFields(fields, n) ==
  Len(fields) >= n /\ \A i \in 1..n : fields[i].numeric

\* C31 as stated: for a name without a terminator of its own the call
\* succeeds exactly when the state is a task state and thirteen numeric
\* fields follow it, and returns the 12th and 13th of them.
C31_TwelfthAndThirteenthField ==
  stat_parse.called /\ ~HoldsTerminator(stat_parse.name)
    => /\ stat_parse.ok <=> /\ stat_parse.state \in TaskStates
                            /\ NumericFields(stat_parse.fields, 13)
       /\ stat_parse.ok => /\ stat_parse.utime = stat_parse.fields[12].value
                           /\ stat_parse.stime = stat_parse.fields[13].value

\* C31 amended: for a name without a terminator of its own the call
\* succeeds exactly when the state is a task state and twelve numeric
\* fields follow it, and returns the 11th and 12th of them, whatever the
\* name.
C31_EleventhAndTwelfthField ==
  stat_parse.called /\ ~HoldsTerminator(stat_parse.name)
    => /\ stat_parse.ok <=> /\ stat_parse.state \in TaskStates
                            /\ NumericFields(stat_parse.fields, 12)
       /\ stat_parse.ok => /\ stat_parse.utime = stat_parse.fields[11].value
                           /\ stat_parse.stime = stat_parse.fields[12].value

\* The line of a process whose name holds ") " and a blank was parsed, with
\* different utime and stime.
C31_Witness ==
  /\ stat_parse.called
  /\ stat_parse.name = "x) y"
  /\ stat_parse.ok
  /\ stat_parse.utime = 123
  /\ stat_parse.stime = 40


(***************************************************************************)
(* The cached pid and the CPU baseline of a connection: properties.        *)
(***************************************************************************)

\* The CPU baseline of the session s is all 0.
BaselineUnset(s) ==
  /\ s.prev_proc_utime = 0
  /\ s.prev_proc_stime = 0
  /\ s.prev_proc_sample_mono_ms = 0

\* C32: a session whose cached pid is 0 has an all-zero baseline, and a
\* call that resolved the pid by a scan of /proc and succeeded took the
\* first-sample branch.
C32_NoPidNoBaseline ==
  /\ session.proc_pid = 0 => BaselineUnset(session)
  /\ rps.called /\ rps.scanned /\ rps.found => rps.path = "first"

\* A write callback found a session with a cached pid and a set baseline
\* and left it with pid 0 and an unset baseline.
C32_Witness ==
  /\ rps.called
  /\ rps.before.proc_pid # 0
  /\ rps.before.prev_proc_sample_mono_ms # 0
  /\ rps.before.prev_proc_utime + rps.before.prev_proc_stime # 0
  /\ session.proc_pid = 0
  /\ BaselineUnset(session)


\* C33: after a read_process_stats call that returned false the session's
\* cached pid and baseline are 0, and so are the outputs.
C33_FailureClearsEverything ==
  rps.called /\ ~rps.found
    => /\ session.proc_pid = 0
       /\ BaselineUnset(session)
       /\ rps.cpu = Real(0)
       /\ rps.rss_kb = 0 /\ rps.pss_kb = 0 /\ rps.uss_kb = 0
       /\ rps.pid = 0


\* C34: a successful call for a session whose pid is cached and whose
\* baseline time is the snapshot's monotonic_ms (a write callback already
\* ran on this snapshot) reports cpu 0, stores the counters it read as the
\* baseline and leaves the baseline time as it was; a call that reports a
\* non-zero cpu runs on a snapshot newer than the baseline.
C34_SecondWriteReportsZero ==
  /\ (/\ rps.called /\ rps.found
      /\ rps.before.proc_pid # 0
      /\ rps.before.prev_proc_sample_mono_ms = rps.now)
       => /\ rps.cpu = Real(0)
          /\ session.prev_proc_utime = procs[rps.pid].utime
          /\ session.prev_proc_stime = procs[rps.pid].stime
          /\ session.prev_proc_sample_mono_ms
               = rps.before.prev_proc_sample_mono_ms
  /\ (rps.called /\ rps.cpu # Real(0))
       => rps.now > rps.before.prev_proc_sample_mono_ms

\* The second write callback on one snapshot found the process' counters
\* advanced since the first.
C34_Witness ==
  /\ rps.called /\ rps.found
  /\ rps.pid = rps.before.proc_pid
  /\ rps.now # 0
  /\ rps.before.prev_proc_sample_mono_ms = rps.now
  /\ procs[rps.pid].utime + procs[rps.pid].stime
       > rps.before.prev_proc_utime + rps.before.prev_proc_stime
  /\ rps.cpu = Real(0)


(***************************************************************************)
(* The sampler's baselines across timer restarts: properties.              *)
(***************************************************************************)

\* C35: a sampler run that is not the first of the process lifetime is no
\* baseline sample, whether or not the timer was removed and armed again
\* since the run before: the CPU baseline is set, the monotonic time the
\* run before stored serves as baseline, and delta_ms is the time since
\* that run when the reading is not lower.
C35_OnlyFirstTickIsBaseline ==
  sample.taken /\ ~sample.first
    => /\ initialized
       /\ sample.before_mono_ms # 0
       /\ sample.now_mono_ms >= sample.before_mono_ms
            => sys_stats.delta_ms
                 = sample.now_mono_ms - sample.before_mono_ms


(***************************************************************************)
(* A failed read of /proc/stat: properties.                                *)
(***************************************************************************)

\* C39: a call of read_cpu_stats whose read of /proc/stat fails (the file
\* does not open, no line is read, or the line does not scan into eight
\* counters) reports cpu_usage 0 and leaves prev_idle, prev_total and
\* initialized as they were.
C39_FailedReadKeepsBaseline ==
  [][(cpuVars' # cpuVars /\ ~stat_line'.parsed) =>
       /\ cpu_usage' = Real(0)
       /\ prev_idle' = prev_idle
       /\ prev_total' = prev_total
       /\ initialized' = initialized]_vars

\* C39 witness: a read failed at sscanf after an earlier call had stored a
\* baseline, and the baseline is still in place.
C39_Witness ==
  /\ ~stat_line.parsed
  /\ stat_line.why = "sscanf"
  /\ initialized
  /\ prev_total > 0
  /\ prev_idle > 0
  /\ cpu_usage = Real(0)


(***************************************************************************)
(* The precedence of the commands in one message: properties.              *)
(***************************************************************************)

\* The message is one the RECEIVE handler looks into: short enough and a
\* JSON object.
Handled(m) ==
  /\ m.received
  /\ ~DroppedLength(Len(m.text))
  /\ m.parsed
  /\ m.is_object

\* C37: of the commands in one received object at most one takes effect.
\* With list_processes true the only reply is the process list and the
\* monitor state stays; otherwise with storage true the only reply is the
\* storage list and the monitor state stays; otherwise there is no reply
\* and the monitor state changes only by a monitor field.  Each message
\* is answered by at most one frame.
C37_OneCommandTakesEffect ==
  [][Handled(message') =>
       IF message'.list_processes.type = "true"
       THEN /\ session' = session
            /\ reply'.sent => TopKeys(reply'.bytes) = <<"processes">>
       ELSE IF message'.storage.type = "true"
       THEN /\ session' = session
            /\ reply'.sent => TopKeys(reply'.bytes) = <<"storage">>
       ELSE /\ reply' = NoReply
            /\ message'.monitor.type = "absent" => session' = session
            /\ message'.monitor.type = "string" =>
                 /\ session'.proc_enabled = (message'.monitor.str # "")
                 /\ session'.proc_pid = 0]_vars

\* C37 witness: a message with list_processes true and a monitor command
\* for "vi" was answered with the process list while the connection goes
\* on monitoring "sh" under its cached pid and baseline.
C37_Witness ==
  /\ Handled(message)
  /\ message.list_processes.type = "true"
  /\ message.monitor = JsonText("vi")
  /\ reply.sent
  /\ TopKeys(reply.bytes) = <<"processes">>
  /\ session.proc_enabled
  /\ session.proc_name = "sh"
  /\ session.proc_pid # 0
  /\ session.prev_proc_sample_mono_ms # 0


(***************************************************************************)
(* The client count a snapshot reports: properties.                        *)
(***************************************************************************)

\* The WRITEABLE callback is due for connection c: the handler will build
\* a snapshot with ws_connected_client_count as clients.connected and
\* MAX_WS_CONNECTED_CLIENTS as clients.max.
WriteDue(c) ==
  /\ srv = "running"
  /\ lws_timer_id # 0
  /\ wsi[c] = "established"
  /\ write_requested[c]

\* C36: whenever a write opportunity is due, the connection it is for is
\* counted, and the connected count the snapshot will report lies between
\* 1 and MAX_WS_CONNECTED_CLIENTS inclusive.
C36_ConnectedWithinOneAndMax ==
  \A c \in Conns :
    WriteDue(c) =>
      /\ counted[c]
      /\ ws_connected_client_count >= 1
      /\ ws_connected_client_count <= MAX_WS_CONNECTED_CLIENTS


(***************************************************************************)
(* Isolation of the connections: properties.                               *)
(***************************************************************************)

\* C38: a RECEIVE or WRITEABLE callback on connection c leaves the monitor
\* state and the last frame of every other connection, the pending and
\* connected counters and the stats timer as they were: every step either
\* leaves all of these alone or is no callback on c.
C38_OtherConnectionsUntouched ==
  [][\A c \in Writers :
       \/ /\ \A d \in Writers \ {c} : sent'[d] = sent[d]
          /\ ws_pending_client_count' = ws_pending_client_count
          /\ ws_connected_client_count' = ws_connected_client_count
          /\ stats_timer_id' = stats_timer_id
       \/ ~(SessionReceive(c) \/ SnapshotWrite(c))]_vars

\* C38 witness: both connections were told to monitor "sh"; the first has
\* resolved the pid and taken a baseline, the second has just received
\* its command and has neither, and the first one's state is in place.
C38_Witness ==
  /\ message.received
  /\ message.monitor = JsonText("sh")
  /\ \E c \in Writers, d \in Writers :
       /\ c # d
       /\ sent[c].pss.proc_enabled
       /\ sent[c].pss.proc_name = "sh"
       /\ sent[c].pss.proc_pid # 0
       /\ sent[c].pss.prev_proc_sample_mono_ms # 0
       /\ sent[c].doc # NoSnapshot
       /\ sent[d].pss.proc_enabled
       /\ sent[d].pss.proc_name = "sh"
       /\ sent[d].pss.proc_pid = 0
       /\ sent[d].pss.prev_proc_sample_mono_ms = 0

=============================================================================
